---- MODULE Spec2Model ----
(***************************************************************************)
(* EEPROM emulation on flash (src/softeeprom/softeeprom.c).                *)
(*                                                                         *)
(* The medium is an array of 32-bit words; a word is modelled as the pair  *)
(* <<upper 16 bits, lower 16 bits>>, so an entry (id << 16) | data is      *)
(* <<id, data>> and 0xFFFFFFFF is <<65535, 65535>>.  Addresses are word    *)
(* indices relative to g_pucEEPROMStart (byte address / 4): "page + 8"     *)
(* in the source is "page + 2" here, "+ 4" is "+ 1".                       *)
(*                                                                         *)
(* Every API call is a sequence of steps; each step holds at most one      *)
(* operation on the medium (one PageErase or one PageDataWrite), so that a *)
(* reset can fall between any two of them.                                 *)
(***************************************************************************)
EXTENDS Integers, Sequences, FiniteSets, TLC

\* ---------------------------------------------------------------- bounds
\* MAX_SOFTEEPROM_IDS, scaled down from 127.
NUM_IDS == 2
\* Number of EEPROM pages in the region ((ulEnd - ulStart) / ulSize).
NumPages == 2
\* Data values written by the callers: 0 .. NumValues - 1 (16 bits in the code).
NumValues == 3
\* The active status counter is not driven past MaxGen.
MaxGen == 2
\* Longest byte range handed to the wrapper.
MaxLen == 3
\* Calls of SoftEEPROM_WrapperWrite in one run.
MaxCalls == 3
\* Number of medium faults injected in one run of SpecFault.
MaxFaults == 1
\* Entries of the full page in SpecBuffer, where the copy of a page swap runs
\* on a page long enough to fill ulDataBuffer.
ScanEntries == 40

\* ------------------------------------------------------------- constants
HALF == 65536
SKIP_ID == 255
FIRST_BATCH_BYTES == 24
BATCH_BYTES == 128
\* ulDataBuffer[32]
BUFFER_WORDS == 32

ERR_NOT_INIT == 1
ERR_ILLEGAL_ID == 2
ERR_PG_ERASE == 3
ERR_PG_WRITE == 4
ERR_ACTIVE_PG_CNT == 5
ERR_RANGE == 6
ERR_AVAIL_ENTRY == 7
ERR_TWO_ACTIVE_NO_FULL == 8
ERR_SWAP == 32768

\* ulSize / 4: the reference configuration has 0x400 / 4 = 2 * 127 + 2 words.
PageWords == 2 * NUM_IDS + 2
EEPROMStart == 0
EEPROMEnd == NumPages * PageWords
PageStarts == {p * PageWords : p \in 0..(NumPages - 1)}
Addrs == EEPROMStart..(EEPROMEnd - 1)

ERASED_WORD == <<HALF - 1, HALF - 1>>
\* ~(ERASED_WORD)
USED_MARK == <<0, 0>>
NUM_VECTOR_BITS == NUM_IDS + 8 - (NUM_IDS % 8)

Keys == 0..(NUM_IDS - 1)
Values == 0..(NumValues - 1)
\* ids handed to the API: the valid ones and the first illegal one
IDInputs == 0..NUM_IDS
NotFound == 0 - 1
\* a null pointer (the globals after reset) and the pointer 0xFFFFFFFF
NullPtr == 0 - 1
BadPtr == 0 - 2

\* ------------------------------------------------------- 32-bit arithmetic
WordInc(w) ==
    IF w[2] < HALF - 1 THEN <<w[1], w[2] + 1>>
    ELSE IF w[1] < HALF - 1 THEN <<w[1] + 1, 0>>
    ELSE <<0, 0>>

WordDec(w) ==
    IF w[2] > 0 THEN <<w[1], w[2] - 1>>
    ELSE IF w[1] > 0 THEN <<w[1] - 1, HALF - 1>>
    ELSE <<HALF - 1, HALF - 1>>

WordGT(a, b) == a[1] > b[1] \/ (a[1] = b[1] /\ a[2] > b[2])

RECURSIVE BitAnd(_, _, _)
BitAnd(a, b, n) ==
    IF n = 0 THEN 0
    ELSE (IF a % 2 = 1 /\ b % 2 = 1 THEN 1 ELSE 0) + 2 * BitAnd(a \div 2, b \div 2, n - 1)

\* The AND of two half words; all ones is the neutral element.
HalfAnd(a, b) ==
    IF a = HALF - 1 THEN b
    ELSE IF b = HALF - 1 THEN a
    ELSE BitAnd(a, b, 16)

WordAnd(a, b) == <<HalfAnd(a[1], b[1]), HalfAnd(a[2], b[2])>>

\* ------------------------------------------------------------- the medium
\* Outcomes of one primitive of the flash driver: it works; it reports an
\* error and leaves the medium as it was; it reports success and leaves
\* the medium as it was.
AllOutcomes == {"ok", "fail", "silent"}

\* FlashErase() on the blocks of one page.
FlashErase(f, page, o) ==
    IF o = "ok"
    THEN [a \in Addrs |-> IF a >= page /\ a < page + PageWords THEN ERASED_WORD ELSE f[a]]
    ELSE f

\* FlashProgram(): a programmed bit can only go from 1 to 0.
FlashProgram(f, data, addr, o) ==
    IF o = "ok"
    THEN [a \in DOMAIN f |->
            IF a >= addr /\ a < addr + Len(data)
            THEN WordAnd(f[a], data[a - addr + 1]) ELSE f[a]]
    ELSE f

PageErase(f, page, o) ==
    LET g == FlashErase(f, page, o) IN
    [f |-> g,
     rc |-> IF o = "fail" THEN 0 - 1
            ELSE IF g[page] # ERASED_WORD \/ g[page + 1] # ERASED_WORD THEN 0 - 1
            ELSE 0]

\* The verification loop of PageDataWrite: the loop counter is the byte count
\* itself, reset to 0, and compared with itself.
PageDataWriteVerify(g, data, addr, ulByteCount) ==
    LET count == 0
        limit == count
    IN \A i \in {j \in 0..(Len(data) - 1) : 4 * j >= count /\ 4 * j < limit} :
          g[addr + i] = data[i + 1]

PageDataWrite(f, data, addr, o) ==
    LET g == FlashProgram(f, data, addr, o) IN
    [f |-> g,
     rc |-> IF o = "fail" THEN 0 - 1
            ELSE IF ~PageDataWriteVerify(g, data, addr, 4 * Len(data)) THEN 0 - 1
            ELSE 0,
     mismatch |-> o # "fail" /\ \E i \in 0..(Len(data) - 1) : g[addr + i] # data[i + 1],
     over |-> \E i \in 0..(Len(data) - 1) : f[addr + i] # ERASED_WORD]

\* ------------------------------------------------------- page inspection
\* A classification that looks at the first status word only.
PageIsActive_firstWord(f, page) == f[page] # ERASED_WORD

PageIsActive(f, page) == f[page] # ERASED_WORD /\ f[page + 1] = ERASED_WORD

PageIsUsed(f, page) == f[page] # ERASED_WORD /\ f[page + 1] # ERASED_WORD

GetActivePageCount(f) == Cardinality({p \in PageStarts : PageIsActive(f, p)})

\* A count that takes every page for a used one.
GetUsedPageCount_all(f) == NumPages

GetUsedPageCount(f) == Cardinality({p \in PageStarts : PageIsUsed(f, p)})

\* A rotation that always goes back to the first page of the region.
NextPageOf_first(page) == EEPROMStart

NextPageOf(page) ==
    IF page + PageWords < EEPROMEnd THEN page + PageWords ELSE EEPROMStart

PrevPageOf(page) ==
    IF page = EEPROMStart THEN EEPROMEnd - PageWords ELSE page - PageWords

\* A scan that runs to the end of the page whatever the entries hold.
NextAvailScan_end(f, addr, usIdx) == addr + (PageWords - 2) - usIdx

RECURSIVE NextAvailScan(_, _, _)
NextAvailScan(f, addr, usIdx) ==
    IF usIdx >= PageWords - 2 THEN addr
    ELSE IF f[addr] = ERASED_WORD THEN addr
    ELSE NextAvailScan(f, addr + 1, usIdx + 1)

\* A search that always settles on the first entry of the page.
GetNextAvailEntry_first(f, activePage) == activePage + 2

GetNextAvailEntry(f, activePage) == NextAvailScan(f, activePage + 2, 0)

RECURSIVE MRUScan(_, _, _, _)
MRUScan(f, page, cnt, mru) ==
    IF page >= EEPROMEnd THEN mru
    ELSE IF PageIsUsed(f, page) /\ WordGT(f[page], cnt)
         THEN MRUScan(f, page + PageWords, f[page], page)
         ELSE MRUScan(f, page + PageWords, cnt, mru)

GetMostRecentlyUsedPage(f) == MRUScan(f, EEPROMStart, <<0, 0>>, BadPtr)

\* The first page, in address order, that is marked active.
RECURSIVE FirstActiveScan(_, _)
FirstActiveScan(f, page) ==
    IF page >= EEPROMEnd THEN page
    ELSE IF PageIsActive(f, page) THEN page
    ELSE FirstActiveScan(f, page + PageWords)

\* A search that settles on the first page of the region, active or not.
FindActivePage_start(f) == EEPROMStart

FindActivePage(f) == FirstActiveScan(f, EEPROMStart)

\* A scan that finds no page full.
FullActiveScan_never(f, page) == EEPROMEnd

\* A scan that takes the first active page, full or not.
FullActiveScan_any(f, page) == FirstActiveScan(f, page)

\* The first page, in address order, that is marked active and whose last
\* entry is programmed; EEPROMEnd when there is none.
RECURSIVE FullActiveScan(_, _)
FullActiveScan(f, page) ==
    IF page >= EEPROMEnd THEN page
    ELSE IF PageIsActive(f, page) /\ f[page + PageWords - 1] # ERASED_WORD THEN page
    ELSE FullActiveScan(f, page + PageWords)

\* A search that settles on the active page with the highest address.
FindFullActivePage_last(f) ==
    LET act == {p \in PageStarts : PageIsActive(f, p)} IN
    IF act = {} THEN EEPROMEnd ELSE CHOOSE p \in act : \A q \in act : q <= p

FindFullActivePage(f) == FullActiveScan(f, EEPROMStart)

\* ------------------------------------------------------------------ read
\* A scan that stops at the oldest entry of the id instead of the newest.
ReadScan_oldest(f, entry, first, usID) ==
    LET hits == {a \in first..entry : f[a][1] = usID} IN
    IF hits = {} THEN [found |-> FALSE, data |-> HALF - 1]
    ELSE [found |-> TRUE,
          data |-> f[CHOOSE a \in hits : \A b \in hits : a <= b][2]]

RECURSIVE ReadScan(_, _, _, _)
ReadScan(f, entry, first, usID) ==
    IF entry < first THEN [found |-> FALSE, data |-> HALF - 1]
    ELSE IF f[entry][1] = usID THEN [found |-> TRUE, data |-> f[entry][2]]
    ELSE ReadScan(f, entry - 1, first, usID)

ReadIDIllegal(usID) == usID > NUM_IDS - 1

\* A scan that stops one entry short of the first entry of the page.
ReadEntry_skipFirst(f, activePage, nextAvail, usID) ==
    ReadScan(f, nextAvail - 1, activePage + 3, usID)

ReadEntry(f, activePage, nextAvail, usID) ==
    ReadScan(f, nextAvail - 1, activePage + 2, usID)

\* ------------------------------------------------------------- page swap
\* The scan of PageSwap over the full page, from its last entry to its first:
\* the batches handed to PageDataWrite, in order.
\* usSize is the number of entries of the page.
\* A scan that keeps every entry in the buffer until the scan is over.
RECURSIVE SwapScanOver_noFlush(_, _, _, _, _, _, _, _)
SwapScanOver_noFlush(f, used, usCnt, usSize, swapped, buf, byteCount, batches) ==
    IF usCnt >= usSize
    THEN (IF Len(buf) # 0 THEN Append(batches, buf) ELSE batches)
    ELSE LET ulEntry == f[used]
             usEntryID == ulEntry[1]
         IN IF usEntryID \notin swapped /\ usEntryID # SKIP_ID
            THEN SwapScanOver_noFlush(f, used - 1, usCnt + 1, usSize,
                                      swapped \cup {usEntryID},
                                      Append(buf, ulEntry), byteCount - 4, batches)
            ELSE SwapScanOver_noFlush(f, used - 1, usCnt + 1, usSize, swapped, buf,
                                      byteCount, batches)

RECURSIVE SwapScanOver(_, _, _, _, _, _, _, _)
SwapScanOver(f, used, usCnt, usSize, swapped, buf, byteCount, batches) ==
    IF usCnt >= usSize
    THEN (IF Len(buf) # 0 THEN Append(batches, buf) ELSE batches)
    ELSE LET ulEntry == f[used]
             usEntryID == ulEntry[1]
         IN IF usEntryID \notin swapped /\ usEntryID # SKIP_ID
            THEN IF byteCount - 4 = 0
                 THEN SwapScanOver(f, used - 1, usCnt + 1, usSize,
                                   swapped \cup {usEntryID},
                                   <<>>, BATCH_BYTES, Append(batches, Append(buf, ulEntry)))
                 ELSE SwapScanOver(f, used - 1, usCnt + 1, usSize,
                                   swapped \cup {usEntryID},
                                   Append(buf, ulEntry), byteCount - 4, batches)
            ELSE SwapScanOver(f, used - 1, usCnt + 1, usSize, swapped, buf,
                              byteCount, batches)

\* The scan over a page of the region.
SwapScan(f, used, usCnt, swapped, buf, byteCount, batches) ==
    SwapScanOver(f, used, usCnt, PageWords - 2, swapped, buf, byteCount, batches)

\* A scan that stops one entry short of the first entry of the full page.
SwapBatches_short(f, fullPage) ==
    SwapScan(f, fullPage + PageWords - 1, 1, {}, <<>>, FIRST_BATCH_BYTES, <<>>)

\* A swap that never consults ucIDSwapped: every entry is copied.
SwapBatches_all(f, fullPage) ==
    << [i \in 1..(PageWords - 2) |-> f[fullPage + PageWords - i]] >>

SwapBatches(f, fullPage) ==
    SwapScan(f, fullPage + PageWords - 1, 0, {}, <<>>, FIRST_BATCH_BYTES, <<>>)

\* The scan indexes ucIDSwapped[usEntryID / 8]: outside the array for such ids.
SwapVectorOutOfBounds(f, fullPage) ==
    \E a \in (fullPage + 2)..(fullPage + PageWords - 1) : f[a][1] >= NUM_VECTOR_BITS

\* An id check that lets NUM_IDS itself through.
WriteIDIllegal_off(usID) == usID > NUM_IDS

WriteIDIllegal(usID) == usID >= NUM_IDS

\* A test that finds the active page full one entry early.
PageIsFull_early(activePage, nextAvail) == nextAvail >= activePage + PageWords - 1

\* A test that never finds the active page full.
PageIsFull_never(activePage, nextAvail) == FALSE

PageIsFull(activePage, nextAvail) == nextAvail >= activePage + PageWords

\* A check that finds no room in the new page whatever was copied.
NoAvailEntry_always(activePage, nextAvail) == TRUE

NoAvailEntry(activePage, nextAvail) == ~(nextAvail < activePage + PageWords)

\* Error codes raised inside PageSwap: ERR_SWAP | code (the bits are disjoint).
\* A swap error handed on as PageSwap returned it.
SwapError_plain(code) == code

SwapError(code) == ERR_SWAP + code

\* ----------------------------------------------------------------- state
VARIABLES
    flash,                  \* the words of the EEPROM region
    g_bEEPROMInitialized,
    g_pucActivePage,
    g_pucNextAvailEntry,
    pc,                     \* position inside the API call in progress
    loc,                    \* the locals of the call in progress
    ret,                    \* return code of the last completed call
    last,                   \* the last call: its arguments and what it reported
    pdw,                    \* the last PageDataWrite: what it stored and returned
    shadow,                 \* value of every key after the last completed call
    crash,                  \* the call a reset interrupted, until the next update
    overwrite,              \* some program has hit a word that was not erased
    faults,                 \* medium faults injected so far
    wr                      \* the call of the byte wrapper: arguments, position, results

vars == <<flash, g_bEEPROMInitialized, g_pucActivePage, g_pucNextAvailEntry,
          pc, loc, ret, last, pdw, shadow, crash, overwrite, faults, wr>>

NoLoc == [id |-> 0, data |-> 0, full |-> 0, page |-> 0, cnt |-> <<0, 0>>,
          entry |-> 0, batch |-> 0]
\* held: g_pucActivePage and g_pucNextAvailEntry as they were when the
\* device was reset with the engine initialised and no call in progress.
NoHeld == <<NullPtr, NullPtr>>
\* repair: the page SoftEEPROMInit had erased and the counter it was about to
\* program when the device was reset between the two.
NoRepair == <<NullPtr, <<0, 0>>>>
NoLast == [op |-> "none", id |-> 0, data |-> 0, swap |-> FALSE, from |-> NullPtr,
           held |-> NoHeld, repair |-> NoRepair]
NoCrash == [op |-> "none", pc |-> "idle", id |-> 0, data |-> 0]
NoPdw == [mismatch |-> FALSE, rc |-> 0]
NoWr == [op |-> "none", state |-> "idle", a0 |-> 0, n0 |-> 0, data |-> <<>>,
         addr |-> 0, size |-> 0, idx |-> 0, called |-> FALSE, calls |-> 0, rc |-> 0,
         buf |-> <<>>, before |-> <<>>,
         unwritten |-> 0..(2 * NUM_IDS - 1)]

\* The record of a new call: the count of calls and the byte addresses not
\* written since the last clear are carried over.
NewWr == [NoWr EXCEPT !.calls = wr.calls, !.unwritten = wr.unwritten]

\* What SoftEEPROMRead delivers for a valid id, as one value.
ReadVal(f, activePage, nextAvail, usID) ==
    LET r == ReadEntry(f, activePage, nextAvail, usID) IN
    IF r.found THEN r.data ELSE NotFound

CurRead(usID) == ReadVal(flash, g_pucActivePage, g_pucNextAvailEntry, usID)

\* The values the keys have when an updating call starts.
BaseShadow == IF crash.op = "none" THEN shadow ELSE [k \in Keys |-> CurRead(k)]

OpOf(p) ==
    IF p \in {"swap_copy", "swap_mark_new", "swap_mark_old", "write_entry"} THEN "write"
    ELSE IF p \in {"clear_erase", "clear_mark_new"} THEN "clear"
    ELSE IF p = "init_mark" THEN "init"
    ELSE "trap"

\* A medium operation with outcome o: a fault is counted, and bounded.
Inject(o) ==
    /\ o # "ok" => faults < MaxFaults
    /\ faults' = IF o = "ok" THEN faults ELSE faults + 1

NoMedium(o) == o = "ok" /\ UNCHANGED <<flash, pdw, overwrite, faults>>

Programmed(r) ==
    /\ flash' = r.f
    /\ pdw' = [mismatch |-> r.mismatch, rc |-> r.rc]
    /\ overwrite' = (overwrite \/ r.over)

Erased(r) == flash' = r.f /\ UNCHANGED <<pdw, overwrite>>

\* A call returns code: nothing else of the engine changes.
Return(code) ==
    /\ ret' = code
    /\ pc' = "idle"
    /\ loc' = NoLoc
    /\ UNCHANGED <<g_bEEPROMInitialized, g_pucActivePage, g_pucNextAvailEntry>>

Init ==
    /\ flash = [a \in Addrs |-> ERASED_WORD]
    /\ g_bEEPROMInitialized = FALSE
    /\ g_pucActivePage = NullPtr
    /\ g_pucNextAvailEntry = NullPtr
    /\ pc = "idle"
    /\ loc = NoLoc
    /\ ret = 0
    /\ last = NoLast
    /\ pdw = NoPdw
    /\ shadow = [k \in Keys |-> NotFound]
    /\ crash = NoCrash
    /\ overwrite = FALSE
    /\ faults = 0
    /\ wr = NoWr

\* --------------------------------------------------------- SoftEEPROMInit
InitAdopt(page, nextAvail) ==
    /\ g_pucActivePage' = page
    /\ g_pucNextAvailEntry' = nextAvail
    /\ g_bEEPROMInitialized' = TRUE
    /\ ret' = 0
    /\ pc' = "idle"
    /\ loc' = NoLoc

\* The repair branches: erase page, then (next step) mark it active with cnt.
InitRepair(page, cnt, o) ==
    LET r == PageErase(flash, page, o) IN
    /\ Inject(o)
    /\ Erased(r)
    /\ IF r.rc # 0 THEN Return(ERR_PG_ERASE)
       ELSE /\ pc' = "init_mark"
            /\ loc' = [NoLoc EXCEPT !.page = page, !.cnt = cnt]
            /\ UNCHANGED <<ret, g_bEEPROMInitialized, g_pucActivePage,
                           g_pucNextAvailEntry>>

\* A check that does not compare the counters.
StaleActive_anyUsed(f, activePg) == PageIsUsed(f, PrevPageOf(activePg))

\* A check that finds every active page in order.
StaleActive_never(f, activePg) == FALSE

\* With one active page: is the page before it used with a counter that is
\* not one less than the active page's?
StaleActive(f, activePg) ==
    /\ PageIsUsed(f, PrevPageOf(activePg))
    /\ f[PrevPageOf(activePg)] # WordDec(f[activePg])

SoftEEPROMInit(o) ==
    /\ pc = "idle"
    /\ wr' = NewWr
    /\ last' = [NoLast EXCEPT !.op = "init",
                              !.held = IF last.op = "reset" THEN last.held ELSE NoHeld,
                              !.repair = IF last.op = "reset" THEN last.repair
                                         ELSE NoRepair]
    /\ UNCHANGED <<shadow, crash>>
    /\ LET ucActivePgCnt == GetActivePageCount(flash)
           mru == GetMostRecentlyUsedPage(flash)
           activePg == FindActivePage(flash)
           fullPg == FindFullActivePage(flash)
       IN
       IF ucActivePgCnt = 0
       THEN IF GetUsedPageCount(flash) = 0
            THEN InitRepair(EEPROMStart, <<0, 0>>, o)
            ELSE IF mru = BadPtr
                 THEN \* *(unsigned long *)0xFFFFFFFF is read and the page after
                      \* it erased: the read traps, or the erase of a block
                      \* outside the region fails its verification.
                      /\ NoMedium(o)
                      /\ \/ /\ pc' = "trap"
                            /\ UNCHANGED <<ret, loc, g_bEEPROMInitialized,
                                           g_pucActivePage, g_pucNextAvailEntry>>
                         \/ Return(ERR_PG_ERASE)
                 ELSE InitRepair(NextPageOf(mru), WordInc(flash[mru]), o)
       ELSE IF ucActivePgCnt = 1
       THEN IF StaleActive(flash, activePg)
            THEN InitRepair(activePg, WordInc(flash[PrevPageOf(activePg)]), o)
            ELSE /\ NoMedium(o)
                 /\ InitAdopt(activePg, GetNextAvailEntry(flash, activePg))
       ELSE IF ucActivePgCnt = 2
       THEN /\ NoMedium(o)
            /\ IF fullPg < EEPROMEnd
               THEN InitAdopt(fullPg, fullPg + PageWords)
               ELSE Return(ERR_TWO_ACTIVE_NO_FULL)
       ELSE /\ NoMedium(o)
            /\ Return(ERR_ACTIVE_PG_CNT)

InitMark(o) ==
    /\ pc = "init_mark"
    /\ UNCHANGED wr
    /\ UNCHANGED <<last, shadow, crash>>
    /\ LET r == PageDataWrite(flash, <<loc.cnt>>, loc.page, o) IN
       /\ Inject(o)
       /\ Programmed(r)
       /\ IF r.rc # 0 THEN Return(ERR_PG_WRITE)
          ELSE InitAdopt(loc.page, loc.page + 2)

\* ------------------------------------------- SoftEEPROMInit: its arguments
\* The erase unit of the medium, in words; a page of the model holds
\* PageWords / FLASH_ERASE_SIZE of them.
FLASH_ERASE_SIZE == 2
\* SysCtlFlashSizeGet(), in words: the region is the end of the Flash.
FlashWords == EEPROMEnd

\* The ulSize and ulEnd the callers pass, in words: the model's own, a size
\* that the erase unit does not divide, a size that leaves room for fewer
\* than 2 * NUM_IDS entries, a size of which the region holds one page, and
\* an end past the end of the Flash.
SizeInputs == {PageWords, PageWords - 1, PageWords - FLASH_ERASE_SIZE,
               NumPages * PageWords}
EndInputs == {EEPROMEnd, EEPROMEnd + PageWords}

\* The head of SoftEEPROMInit.  Its six ASSERTs stop nothing: compiled out
\* they are no code, compiled in (DEBUG) they call __error__, which is empty
\* and returns.  The one check that returns is the comparison of ulEnd with
\* the size of the Flash.
InitPrologue(ulEnd, ulSize) ==
    IF ulEnd > FlashWords THEN "range" ELSE "run"

\* SoftEEPROMInit(ulStart, ulEnd, ulSize).  With the model's configuration
\* the recovery is SoftEEPROMInit(o) above.  With another one the call is
\* followed on the fresh medium only, where the recovery finds no active and
\* no used page whatever the page size: it erases at g_pucEEPROMStart,
\* programs the status counter 0 there and returns 0; the engine then works
\* with a geometry that is not the model's and is not followed further.
SoftEEPROMInitArgs(ulEnd, ulSize) ==
    /\ pc = "idle"
    /\ IF ulEnd = EEPROMEnd /\ ulSize = PageWords
       THEN SoftEEPROMInit("ok")
       ELSE /\ \A a \in Addrs : flash[a] = ERASED_WORD
            /\ ~g_bEEPROMInitialized
            /\ wr' = NewWr
            /\ last' = [NoLast EXCEPT !.op = "init"]
            /\ UNCHANGED <<shadow, crash, faults, loc>>
            /\ LET p == InitPrologue(ulEnd, ulSize) IN
               IF p = "range"
               THEN /\ Return(ERR_RANGE)
                    /\ UNCHANGED <<flash, pdw, overwrite>>
               ELSE LET r == PageDataWrite(flash, <<(<<0, 0>>)>>, EEPROMStart, "ok") IN
                    /\ Programmed(r)
                    /\ g_pucActivePage' = EEPROMStart
                    /\ g_pucNextAvailEntry' = EEPROMStart + 2
                    /\ g_bEEPROMInitialized' = TRUE
                    /\ ret' = 0
                    /\ pc' = "misconfigured"

\* -------------------------------------------------------- SoftEEPROMWrite
\* A write that moves g_pucNextAvailEntry two entries on.
WriteEntryAt_two(usID, usData, nextAvail, base, o) ==
    LET r == PageDataWrite(flash, <<(<<usID, usData>>)>>, nextAvail, o) IN
    /\ Inject(o)
    /\ Programmed(r)
    /\ crash' = NoCrash
    /\ IF r.rc # 0
       THEN /\ Return(ERR_PG_WRITE)
            /\ shadow' = base
       ELSE /\ g_pucNextAvailEntry' = nextAvail + 2
            /\ ret' = 0
            /\ pc' = "idle"
            /\ loc' = NoLoc
            /\ shadow' = [base EXCEPT ![usID] = usData]
            /\ UNCHANGED <<g_bEEPROMInitialized, g_pucActivePage>>

\* The entry is programmed at g_pucNextAvailEntry, which then advances.
WriteEntryAt(usID, usData, nextAvail, base, o) ==
    LET r == PageDataWrite(flash, <<(<<usID, usData>>)>>, nextAvail, o) IN
    /\ Inject(o)
    /\ Programmed(r)
    /\ crash' = NoCrash
    /\ IF r.rc # 0
       THEN /\ Return(ERR_PG_WRITE)
            /\ shadow' = base
       ELSE /\ g_pucNextAvailEntry' = nextAvail + 1
            /\ ret' = 0
            /\ pc' = "idle"
            /\ loc' = NoLoc
            /\ shadow' = [base EXCEPT ![usID] = usData]
            /\ UNCHANGED <<g_bEEPROMInitialized, g_pucActivePage>>

\* Step 1 of PageSwap: the next page is erased.
SwapErase(usID, usData, fullPage, o) ==
    LET newPage == NextPageOf(fullPage)
        r == PageErase(flash, newPage, o)
    IN
    /\ Inject(o)
    /\ Erased(r)
    /\ IF r.rc # 0 THEN Return(SwapError(ERR_PG_ERASE))
       ELSE /\ pc' = "swap_copy"
            /\ loc' = [NoLoc EXCEPT !.id = usID, !.data = usData, !.full = fullPage,
                                    !.page = newPage, !.entry = newPage + 2]
            /\ UNCHANGED <<ret, g_bEEPROMInitialized, g_pucActivePage,
                           g_pucNextAvailEntry>>

SoftEEPROMWrite(usID, usData, o) ==
    /\ pc = "idle"
    /\ IF ~g_bEEPROMInitialized
       THEN /\ NoMedium(o)
            /\ Return(ERR_NOT_INIT)
            /\ last' = [NoLast EXCEPT !.op = "write", !.id = usID]
            /\ UNCHANGED <<shadow, crash>>
       ELSE IF WriteIDIllegal(usID)
       THEN /\ NoMedium(o)
            /\ Return(ERR_ILLEGAL_ID)
            /\ last' = [NoLast EXCEPT !.op = "write", !.id = usID,
                                      !.from = g_pucActivePage]
            /\ UNCHANGED <<shadow, crash>>
       ELSE IF PageIsFull(g_pucActivePage, g_pucNextAvailEntry)
       THEN /\ WordGT(<<0, MaxGen>>, flash[g_pucActivePage])
            /\ SwapErase(usID, usData, g_pucActivePage, o)
            /\ last' = [NoLast EXCEPT !.op = "write", !.id = usID, !.data = usData,
                                      !.swap = TRUE, !.from = g_pucActivePage]
            /\ shadow' = BaseShadow
            /\ crash' = NoCrash
       ELSE /\ WriteEntryAt(usID, usData, g_pucNextAvailEntry, BaseShadow, o)
            /\ last' = [NoLast EXCEPT !.op = "write", !.id = usID, !.data = usData,
                                      !.from = g_pucActivePage]

SwapFail(code) == Return(SwapError(code)) /\ UNCHANGED <<last, shadow, crash>>

\* Step 2 of PageSwap: one PageDataWrite of the entries collected so far.
SwapCopy(o) ==
    /\ pc = "swap_copy"
    /\ UNCHANGED wr
    /\ IF SwapVectorOutOfBounds(flash, loc.full)
       THEN \* ucIDSwapped is indexed outside its bounds
            /\ NoMedium(o)
            /\ pc' = "trap"
            /\ UNCHANGED <<loc, ret, last, shadow, crash, g_bEEPROMInitialized,
                           g_pucActivePage, g_pucNextAvailEntry>>
       ELSE LET batches == SwapBatches(flash, loc.full) IN
            IF loc.batch >= Len(batches)
            THEN /\ NoMedium(o)
                 /\ pc' = "swap_mark_new"
                 /\ UNCHANGED <<loc, ret, last, shadow, crash, g_bEEPROMInitialized,
                                g_pucActivePage, g_pucNextAvailEntry>>
            ELSE LET buf == batches[loc.batch + 1]
                     r == PageDataWrite(flash, buf, loc.entry, o)
                 IN
                 /\ Inject(o)
                 /\ Programmed(r)
                 /\ IF r.rc # 0 THEN SwapFail(ERR_PG_WRITE)
                    ELSE /\ loc' = [loc EXCEPT !.entry = loc.entry + Len(buf),
                                               !.batch = loc.batch + 1]
                         /\ pc' = IF loc.batch + 1 < Len(batches)
                                  THEN "swap_copy" ELSE "swap_mark_new"
                         /\ UNCHANGED <<ret, last, shadow, crash, g_bEEPROMInitialized,
                                        g_pucActivePage, g_pucNextAvailEntry>>

\* A swap that never marks the full page used.
SwapMarks_keepOld(f, fullPage, newPage) ==
    << <<newPage, 0, WordInc(f[fullPage])>>, <<newPage, 0, WordInc(f[fullPage])>> >>

\* A swap that marks the new page with the counter of the full one.
SwapMarks_sameCount(f, fullPage, newPage) ==
    << <<newPage, 0, f[fullPage]>>, <<fullPage, 1, USED_MARK>> >>

\* A swap that retires the full page before it activates the new one.
SwapMarks_usedFirst(f, fullPage, newPage) ==
    << <<fullPage, 1, USED_MARK>>, <<newPage, 0, WordInc(f[fullPage])>> >>

\* The two status words PageSwap programs, in the order it programs them:
\* <<page, offset of the status word, the word>>.
SwapMarks(f, fullPage, newPage) ==
    << <<newPage, 0, WordInc(f[fullPage])>>, <<fullPage, 1, USED_MARK>> >>

\* Step 3 of PageSwap: the new page is marked active.
SwapMarkNew(o) ==
    /\ pc = "swap_mark_new"
    /\ UNCHANGED wr
    /\ LET m == SwapMarks(flash, loc.full, loc.page)[1]
           r == PageDataWrite(flash, <<m[3]>>, m[1] + m[2], o)
       IN
       /\ Inject(o)
       /\ Programmed(r)
       /\ IF r.rc # 0 THEN SwapFail(ERR_PG_WRITE)
          ELSE /\ pc' = "swap_mark_old"
               /\ UNCHANGED <<loc, ret, last, shadow, crash, g_bEEPROMInitialized,
                              g_pucActivePage, g_pucNextAvailEntry>>

\* Step 4 of PageSwap: the full page is marked used; the globals move to the
\* new page.
SwapMarkOld(o) ==
    /\ pc = "swap_mark_old"
    /\ UNCHANGED wr
    /\ LET m == SwapMarks(flash, loc.full, loc.page)[2]
           r == PageDataWrite(flash, <<m[3]>>, m[1] + m[2], o)
       IN
       /\ Inject(o)
       /\ Programmed(r)
       /\ IF r.rc # 0 THEN SwapFail(ERR_PG_WRITE)
          ELSE /\ g_pucActivePage' = loc.page
               /\ g_pucNextAvailEntry' = loc.entry
               /\ UNCHANGED <<last, shadow, crash, g_bEEPROMInitialized>>
               /\ IF NoAvailEntry(loc.page, loc.entry)
                  THEN /\ ret' = SwapError(ERR_AVAIL_ENTRY)
                       /\ pc' = "idle"
                       /\ loc' = NoLoc
                  ELSE /\ pc' = "write_entry"
                       /\ UNCHANGED <<loc, ret>>

\* After a page swap: the entry of the write itself.
WriteEntry(o) ==
    /\ pc = "write_entry"
    /\ UNCHANGED wr
    /\ WriteEntryAt(loc.id, loc.data, g_pucNextAvailEntry, shadow, o)
    /\ UNCHANGED last

\* --------------------------------------------------------- SoftEEPROMRead
\* A read without the check of g_bEEPROMInitialized.
ReadReturn_noGuard(bInit, usID) ==
    IF ReadIDIllegal(usID) THEN ERR_ILLEGAL_ID ELSE 0

\* The return code of SoftEEPROMRead.
ReadReturn(bInit, usID) ==
    IF ~bInit THEN ERR_NOT_INIT
    ELSE IF ReadIDIllegal(usID) THEN ERR_ILLEGAL_ID
    ELSE 0

\* A read that scans with g_pucNextAvailEntry itself and leaves it on the
\* entry it found.
SoftEEPROMRead_cursor(usID) ==
    /\ pc = "idle"
    /\ UNCHANGED wr
    /\ UNCHANGED <<flash, pdw, overwrite, faults, shadow, crash>>
    /\ last' = [NoLast EXCEPT !.op = "read"]
    /\ ret' = ReadReturn(g_bEEPROMInitialized, usID)
    /\ pc' = "idle"
    /\ loc' = NoLoc
    /\ g_pucNextAvailEntry' =
          IF ret' = 0 /\ Cardinality({a \in (g_pucActivePage + 2)..(g_pucNextAvailEntry - 1) :
                                         flash[a][1] = usID}) > 0
          THEN CHOOSE a \in (g_pucActivePage + 2)..(g_pucNextAvailEntry - 1) :
                  /\ flash[a][1] = usID
                  /\ \A b \in (a + 1)..(g_pucNextAvailEntry - 1) : flash[b][1] # usID
          ELSE g_pucNextAvailEntry
    /\ UNCHANGED <<g_bEEPROMInitialized, g_pucActivePage>>

SoftEEPROMRead(usID) ==
    /\ pc = "idle"
    /\ UNCHANGED wr
    /\ UNCHANGED <<flash, pdw, overwrite, faults, shadow, crash>>
    /\ last' = [NoLast EXCEPT !.op = "read"]
    /\ Return(ReadReturn(g_bEEPROMInitialized, usID))

\* -------------------------------------------------------- SoftEEPROMClear
ClearFail(code) == Return(code) /\ UNCHANGED <<last, shadow, crash>>

\* Step 1: the current page is marked used.
SoftEEPROMClear(o) ==
    /\ pc = "idle"
    /\ wr' = [NoWr EXCEPT !.calls = wr.calls]
    /\ IF ~g_bEEPROMInitialized
       THEN /\ NoMedium(o)
            /\ Return(ERR_NOT_INIT)
            /\ last' = [NoLast EXCEPT !.op = "clear"]
            /\ UNCHANGED <<shadow, crash>>
       ELSE LET r == PageDataWrite(flash, <<USED_MARK>>, g_pucActivePage + 1, o) IN
            /\ WordGT(<<0, MaxGen>>, flash[g_pucActivePage])
            /\ Inject(o)
            /\ Programmed(r)
            /\ last' = [NoLast EXCEPT !.op = "clear", !.from = g_pucActivePage]
            /\ shadow' = BaseShadow
            /\ crash' = NoCrash
            /\ IF r.rc # 0 THEN Return(ERR_PG_WRITE)
               ELSE /\ pc' = "clear_erase"
                    /\ loc' = [NoLoc EXCEPT !.page = NextPageOf(g_pucActivePage)]
                    /\ UNCHANGED <<ret, g_bEEPROMInitialized, g_pucActivePage,
                                   g_pucNextAvailEntry>>

\* Step 2: the next page is erased.
ClearErase(o) ==
    /\ pc = "clear_erase"
    /\ UNCHANGED wr
    /\ LET r == PageErase(flash, loc.page, o) IN
       /\ Inject(o)
       /\ Erased(r)
       /\ IF r.rc # 0 THEN ClearFail(ERR_PG_ERASE)
          ELSE /\ pc' = "clear_mark_new"
               /\ UNCHANGED <<loc, ret, last, shadow, crash, g_bEEPROMInitialized,
                              g_pucActivePage, g_pucNextAvailEntry>>

\* A clear that starts the counter of the new page again at 0.
ClearStatus_zero(f, activePage) == <<0, 0>>

\* A clear that gives the new page the counter of the old one.
ClearStatus_same(f, activePage) == f[activePage]

\* The status word of the new page: the counter of the old one, plus one.
ClearStatus(f, activePage) == WordInc(f[activePage])

\* Step 3: the erased page is marked active.
ClearMarkNew(o) ==
    /\ pc = "clear_mark_new"
    /\ UNCHANGED wr
    /\ LET r == PageDataWrite(flash, <<ClearStatus(flash, g_pucActivePage)>>, loc.page, o) IN
       /\ Inject(o)
       /\ Programmed(r)
       /\ IF r.rc # 0 THEN ClearFail(ERR_PG_WRITE)
          ELSE /\ g_pucActivePage' = loc.page
               /\ g_pucNextAvailEntry' = loc.page + 2
               /\ ret' = 0
               /\ pc' = "idle"
               /\ loc' = NoLoc
               /\ shadow' = [k \in Keys |-> NotFound]
               /\ UNCHANGED <<last, crash, g_bEEPROMInitialized>>

\* ------------------------------------------------------------------ reset
\* What a power loss or reset does to everything but the medium: the
\* statics are initialised again.
ResetStatics(torn) ==
    /\ g_bEEPROMInitialized' = FALSE
    /\ g_pucActivePage' = NullPtr
    /\ g_pucNextAvailEntry' = NullPtr
    /\ pc' = "idle"
    /\ loc' = NoLoc
    /\ ret' = 0
    /\ last' = [NoLast EXCEPT !.op = "reset",
                              !.held = IF pc = "idle" /\ g_bEEPROMInitialized
                                       THEN <<g_pucActivePage, g_pucNextAvailEntry>>
                                       ELSE NoHeld,
                              !.repair = IF pc = "init_mark" /\ ~torn
                                         THEN <<loc.page, loc.cnt>> ELSE NoRepair]
    /\ crash' = IF pc = "idle" THEN crash
                ELSE IF crash.op = "none" /\ pc # "trap"
                THEN [op |-> OpOf(pc), pc |-> pc, id |-> loc.id, data |-> loc.data]
                ELSE [NoCrash EXCEPT !.op = "multi"]
    /\ wr' = NoWr
    /\ UNCHANGED <<pdw, shadow, overwrite, faults>>

\* Power loss or reset between two operations on the medium: the medium
\* keeps its words.
Reset == ResetStatics(FALSE) /\ UNCHANGED flash

\* The active status counter the call in progress is about to program:
\* <<address, word>>.
CounterInFlight ==
    IF pc = "init_mark" THEN <<loc.page, loc.cnt>>
    ELSE IF pc = "swap_mark_new"
    THEN LET m == SwapMarks(flash, loc.full, loc.page)[1] IN <<m[1] + m[2], m[3]>>
    ELSE <<loc.page, ClearStatus(flash, g_pucActivePage)>>

\* A word whose programming was cut short: one half of it is programmed, the
\* other is not.
TornWords(w) == {<<HALF - 1, w[2]>>, <<w[1], HALF - 1>>} \ {ERASED_WORD, w}

\* Power is lost while FlashProgram() writes an active status counter.
ResetInCounterWrite ==
    /\ pc \in {"init_mark", "swap_mark_new", "clear_mark_new"}
    /\ \E w \in TornWords(CounterInFlight[2]) :
          flash' = [flash EXCEPT ![CounterInFlight[1]] = WordAnd(@, w)]
    /\ ResetStatics(TRUE)


\* ---------------------------------------------------------- byte wrapper
\* The engine's variables: what a step of the wrapper that calls nothing
\* leaves alone.
engineVars == <<flash, g_bEEPROMInitialized, g_pucActivePage, g_pucNextAvailEntry,
                pc, loc, ret, last, pdw, shadow, crash, overwrite, faults>>

\* The code SoftEEPROM_WrapperWrite and SoftEEPROM_WrapperRead return for a
\* range they turn down.
ERR_PAGE_RANGE == 9

ByteAddrs == 0..(2 * NUM_IDS - 1)
\* The callers' addresses run one byte past the last one; they pass at least
\* one byte.
ByteInputs == 0..(2 * NUM_IDS)
LenInputs == 1..MaxLen

\* The bytes the callers hand over: 1, 2, 3, ...
WrapperData(n) == [i \in 1..n |-> i]

\* A read that leaves the caller's word alone when the key is absent.
ReadData_keep(usID, prev) ==
    LET r == ReadEntry(flash, g_pucActivePage, g_pucNextAvailEntry, usID) IN
    IF ReadReturn(g_bEEPROMInitialized, usID) # 0 \/ ~r.found THEN prev
    ELSE r.data

\* *pusData after SoftEEPROMRead(usID, &usData, &bFound), usData holding prev
\* before: the two error returns leave it alone.
ReadData(usID, prev) ==
    IF ReadReturn(g_bEEPROMInitialized, usID) # 0 THEN prev
    ELSE ReadEntry(flash, g_pucActivePage, g_pucNextAvailEntry, usID).data

\* The byte at a byte address, as the engine holds it.
ByteAt(b) ==
    LET usData == ReadData(b \div 2, HALF - 1) IN
    IF b % 2 = 1 THEN usData \div 256 ELSE usData % 256

ByteView == [b \in ByteAddrs |-> ByteAt(b)]

WrapperRangeError(usAddress, usSize) == ((usAddress + usSize) \div 2) > NUM_IDS

\* A merge that puts the byte of an odd address into the low half.
MergeByte_low(usData, odd, byte) == (usData \div 256) * 256 + byte

\* One byte merged into the word read: the high byte for an odd address.
MergeByte(usData, odd, byte) ==
    IF odd THEN (usData % 256) + 256 * byte
    ELSE (usData \div 256) * 256 + byte

\* A word built with its bytes exchanged.
PairWord_swapped(lo, hi) == hi + 256 * lo

\* Two bytes as one word: pucData[0] | pucData[1] << 8.
PairWord(lo, hi) == lo + 256 * hi

WrapperIdle == wr.state \in {"idle", "done"}

\* SoftEEPROM_WrapperWrite up to its loop.
WrapperWrite(usAddress, usSize) ==
    /\ pc = "idle"
    /\ WrapperIdle
    /\ wr.calls < MaxCalls
    /\ UNCHANGED engineVars
    /\ wr' = IF WrapperRangeError(usAddress, usSize)
             THEN [NewWr EXCEPT !.op = "write", !.state = "done", !.a0 = usAddress,
                               !.n0 = usSize, !.data = WrapperData(usSize),
                               !.rc = ERR_PAGE_RANGE, !.before = ByteView,
                               !.calls = wr.calls + 1]
             ELSE [NewWr EXCEPT !.op = "write", !.state = "run", !.a0 = usAddress,
                               !.n0 = usSize, !.data = WrapperData(usSize),
                               !.addr = usAddress, !.size = usSize,
                               !.before = ByteView, !.calls = wr.calls + 1]

\* One pass of the loop of SoftEEPROM_WrapperWrite, from the test of the
\* last SoftEEPROMWrite's return to the next SoftEEPROMWrite.
WrapperWriteStep(o) ==
    /\ pc = "idle"
    /\ wr.op = "write"
    /\ wr.state = "run"
    /\ IF wr.called /\ ret # 0
       THEN \* OutputErrorAndQuit: no return
            /\ o = "ok"
            /\ wr' = [wr EXCEPT !.state = "quit", !.rc = ret]
            /\ UNCHANGED engineVars
       ELSE IF wr.size = 0
       THEN /\ o = "ok"
            /\ wr' = [wr EXCEPT !.state = "done", !.rc = 0]
            /\ UNCHANGED engineVars
       ELSE LET usID == wr.addr \div 2
                odd == wr.addr % 2 = 1
                single == odd \/ wr.size = 1
                usData == IF single
                          THEN MergeByte(ReadData(usID, HALF - 1), odd, wr.data[wr.idx + 1])
                          ELSE PairWord(wr.data[wr.idx + 1], wr.data[wr.idx + 2])
                step == IF single THEN 1 ELSE 2
            IN /\ SoftEEPROMWrite(usID, usData, o)
               /\ wr' = [wr EXCEPT !.addr = wr.addr + step, !.size = wr.size - step,
                                   !.idx = wr.idx + step, !.called = TRUE,
                                   !.unwritten = wr.unwritten \
                                       (wr.addr..(wr.addr + step - 1))]

\* The loop of SoftEEPROM_WrapperRead: the buffer and the return code.
RECURSIVE WrapperReadScan(_, _, _, _, _)
WrapperReadScan(usAddress, usSize, usData, lReturn, buf) ==
    IF usSize = 0 THEN [buf |-> buf, rc |-> lReturn]
    ELSE LET usID == usAddress \div 2
             d == ReadData(usID, usData)
             rc == ReadReturn(g_bEEPROMInitialized, usID)
         IN IF usAddress % 2 = 1
            THEN WrapperReadScan(usAddress + 1, usSize - 1, d, rc,
                                 Append(buf, d \div 256))
            ELSE IF usSize > 1
            THEN WrapperReadScan(usAddress + 2, usSize - 2, d, rc,
                                 Append(Append(buf, d % 256), d \div 256))
            ELSE WrapperReadScan(usAddress, 0, d, rc, Append(buf, d % 256))

WrapperReadResult(usAddress, usSize) ==
    WrapperReadScan(usAddress, usSize, 0, 0, <<>>)

SoftEEPROM_WrapperRead(usAddress, usSize) ==
    /\ pc = "idle"
    /\ WrapperIdle
    /\ IF WrapperRangeError(usAddress, usSize)
       THEN /\ wr' = [NewWr EXCEPT !.op = "read", !.state = "done", !.a0 = usAddress,
                                  !.n0 = usSize, !.rc = ERR_PAGE_RANGE]
            /\ UNCHANGED engineVars
       ELSE LET r == WrapperReadResult(usAddress, usSize) IN
            /\ wr' = [NewWr EXCEPT !.op = "read", !.a0 = usAddress, !.n0 = usSize,
                                  !.state = IF r.rc # 0 THEN "quit" ELSE "done",
                                  !.rc = r.rc, !.buf = r.buf]
            /\ IF usSize = 0 THEN UNCHANGED engineVars
               ELSE /\ Return(r.rc)
                    /\ last' = [NoLast EXCEPT !.op = "read"]
                    /\ UNCHANGED <<flash, pdw, overwrite, faults, shadow, crash>>

\* ---------------------------------------------------------- specification
\* The callers write the successor (modulo NumValues) of the value the key
\* reads, 0 to a key that reads as absent: every write changes what a read
\* must deliver, and successive entries of one key differ.
FreshValues(usID) ==
    IF g_bEEPROMInitialized /\ usID \in Keys
    THEN {(CurRead(usID) + 1) % NumValues}
    ELSE {0}

Step(O) ==
    \/ \E o \in O : SoftEEPROMInit(o)
    \/ \E o \in O : InitMark(o)
    \/ \E usID \in IDInputs, o \in O :
          \E usData \in FreshValues(usID) :
              SoftEEPROMWrite(usID, usData, o) /\ UNCHANGED wr
    \/ \E o \in O : SwapCopy(o)
    \/ \E o \in O : SwapMarkNew(o)
    \/ \E o \in O : SwapMarkOld(o)
    \/ \E o \in O : WriteEntry(o)
    \/ \E usID \in IDInputs : SoftEEPROMRead(usID)
    \/ \E o \in O : SoftEEPROMClear(o)
    \/ \E o \in O : ClearErase(o)
    \/ \E o \in O : ClearMarkNew(o)

\* The medium works: every erase and every program succeeds; power may be
\* lost between any two operations on the medium.
Next ==
    \/ Step({"ok"})
    \/ Reset

Spec == Init /\ [][Next]_vars

\* The medium may fail, MaxFaults times; power stays on, and the callers may
\* call SoftEEPROMInit() again after a failure.
NextFault == Step(AllOutcomes)

SpecFault == Init /\ [][NextFault]_vars

\* One erase or program of a write, a page swap or a clear reports failure;
\* the device is then reset and SoftEEPROMInit() runs on a medium that works.
NextRecover ==
    \/ /\ faults = 0
       /\ Step({"ok", "fail"})
       /\ faults' > 0 => last'.op \in {"write", "clear"}
    \/ faults > 0 /\ pc = "idle" /\ last.op \in {"write", "clear"} /\ Reset
    \/ faults > 0 /\ last.op = "reset" /\ SoftEEPROMInit("ok")
    \/ faults > 0 /\ InitMark("ok")

SpecRecover == Init /\ [][NextRecover]_vars

\* The medium works; power may be lost between two operations on the medium
\* and in the middle of the programming of a status counter.
NextTorn ==
    \/ Step({"ok"})
    \/ Reset
    \/ ResetInCounterWrite

SpecTorn == Init /\ [][NextTorn]_vars

\* The medium works and power stays on; a SoftEEPROMWrite that has called
\* PageSwap runs on, as the code does, step after step, until it returns.
WriteRunsOn ==
    \/ SwapCopy("ok")
    \/ SwapMarkNew("ok")
    \/ SwapMarkOld("ok")
    \/ WriteEntry("ok")

NextLive == Step({"ok"})

SpecLive == Init /\ [][NextLive]_vars /\ WF_vars(WriteRunsOn)

\* ------------------------------------------- the copy of a long full page
\* Two pages of ScanEntries entries each.
BufPageWords == ScanEntries + 2
BufAddrs == 0..(2 * BufPageWords - 1)
\* The ids in the full page: numIds of them, one after the other, starting
\* with shift; the data of an entry is its position.
BufEntry(a, numIds, shift) == <<(a - 2 + shift) % numIds, a - 2>>

\* PageSwap has erased the new page and is about to scan the full one, which
\* is the first page, active with the counter 0.
InitBuffer ==
    /\ \E numIds \in 1..ScanEntries, shift \in 0..2 :
          flash = [a \in BufAddrs |->
                     IF a = 0 THEN <<0, 0>>
                     ELSE IF a >= 2 /\ a < BufPageWords THEN BufEntry(a, numIds, shift)
                     ELSE ERASED_WORD]
    /\ g_bEEPROMInitialized = TRUE
    /\ g_pucActivePage = 0
    /\ g_pucNextAvailEntry = BufPageWords
    /\ pc = "swap_copy"
    /\ loc = [NoLoc EXCEPT !.full = 0, !.page = BufPageWords,
                           !.entry = BufPageWords + 2]
    /\ ret = 0
    /\ last = [NoLast EXCEPT !.op = "write", !.swap = TRUE, !.from = 0]
    /\ pdw = NoPdw
    /\ shadow = [k \in Keys |-> NotFound]
    /\ crash = NoCrash
    /\ overwrite = FALSE
    /\ faults = 0
    /\ wr = NoWr

\* The batches PageSwap programs when it copies the full page.
BufBatches ==
    SwapScanOver(flash, loc.full + BufPageWords - 1, 0, ScanEntries, {}, <<>>,
                 FIRST_BATCH_BYTES, <<>>)

\* Step 2 of PageSwap on the long page: one PageDataWrite of the buffer.
BufferCopy ==
    /\ pc = "swap_copy"
    /\ loc.batch < Len(BufBatches)
    /\ LET buf == BufBatches[loc.batch + 1]
           r == PageDataWrite(flash, buf, loc.entry, "ok")
       IN
       /\ Programmed(r)
       /\ loc' = [loc EXCEPT !.entry = loc.entry + Len(buf), !.batch = loc.batch + 1]
       /\ pc' = IF loc.batch + 1 < Len(BufBatches) THEN "swap_copy" ELSE "swap_mark_new"
       /\ UNCHANGED <<ret, last, shadow, crash, faults, wr, g_bEEPROMInitialized,
                      g_pucActivePage, g_pucNextAvailEntry>>

NextBuffer == BufferCopy

SpecBuffer == InitBuffer /\ [][NextBuffer]_vars

\* ------------------------------------------------- the page classification
\* Status words the classification is tried on: the erased word, the used
\* mark (which is also the counter 0), a counter, and a word with one half
\* erased.
StatusWords == {ERASED_WORD, USED_MARK, <<0, 1>>, <<HALF - 1, 0>>}

\* What PageIsActive and PageIsUsed return for a page, as one number:
\* 1 for active, 2 for used, their sum if both, 0 if neither.
PageClass(f, page) ==
    (IF PageIsActive(f, page) THEN 1 ELSE 0) + (IF PageIsUsed(f, page) THEN 2 ELSE 0)

\* A region whose pages have any of the status words, and no entries.
InitClassify ==
    /\ \E s \in [PageStarts \X {0, 1} -> StatusWords] :
          flash = [a \in Addrs |->
                     IF a % PageWords < 2
                     THEN s[<<a - (a % PageWords), a % PageWords>>]
                     ELSE ERASED_WORD]
    /\ g_bEEPROMInitialized = FALSE
    /\ g_pucActivePage = NullPtr
    /\ g_pucNextAvailEntry = NullPtr
    /\ pc = "idle"
    /\ loc = NoLoc
    /\ ret = 0
    /\ last = NoLast
    /\ pdw = NoPdw
    /\ shadow = [k \in Keys |-> NotFound]
    /\ crash = NoCrash
    /\ overwrite = FALSE
    /\ faults = 0
    /\ wr = NoWr

\* PageIsActive and PageIsUsed are called on a page; last.data counts the
\* calls made on the page in a row, up to 2.
Classify(page) ==
    /\ ret' = PageClass(flash, page)
    /\ last' = [NoLast EXCEPT !.op = "classify", !.from = page,
                              !.data = IF last.op = "classify" /\ last.from = page
                                       THEN 2 ELSE 1]
    /\ UNCHANGED <<flash, g_bEEPROMInitialized, g_pucActivePage, g_pucNextAvailEntry,
                   pc, loc, pdw, shadow, crash, overwrite, faults, wr>>

\* A status word of a page is programmed.
ProgramStatus(page, offset, w) ==
    LET r == PageDataWrite(flash, <<w>>, page + offset, "ok") IN
    /\ Programmed(r)
    /\ last' = [NoLast EXCEPT !.op = "program", !.from = page]
    /\ UNCHANGED <<g_bEEPROMInitialized, g_pucActivePage, g_pucNextAvailEntry,
                   pc, loc, ret, shadow, crash, faults, wr>>

NextClassify ==
    \/ \E page \in PageStarts : Classify(page)
    \/ \E page \in PageStarts, offset \in {0, 1}, w \in StatusWords :
          ProgramStatus(page, offset, w)

SpecClassify == InitClassify /\ [][NextClassify]_vars

\* The callers pass SoftEEPROMInit() a configuration, the model's own or
\* another one; the medium works and power stays on.
NextConfig ==
    \/ \E ulEnd \in EndInputs, ulSize \in SizeInputs :
          SoftEEPROMInitArgs(ulEnd, ulSize)
    \/ Step({"ok"})

SpecConfig == Init /\ [][NextConfig]_vars

\* The callers go through the byte wrapper, which they initialise once, at
\* start-up; the medium works and power stays on.
NextWrapper ==
    \/ WrapperIdle /\ ~g_bEEPROMInitialized /\ SoftEEPROMInit("ok")
    \/ InitMark("ok")
    \/ \E usAddress \in ByteInputs, usSize \in LenInputs :
          WrapperWrite(usAddress, usSize)
    \/ WrapperWriteStep("ok")
    \/ SwapCopy("ok")
    \/ SwapMarkNew("ok")
    \/ SwapMarkOld("ok")
    \/ WriteEntry("ok")
    \/ \E usAddress \in ByteInputs, usSize \in LenInputs :
          SoftEEPROM_WrapperRead(usAddress, usSize)
    \/ WrapperIdle /\ SoftEEPROMClear("ok")
    \/ ClearErase("ok")
    \/ ClearMarkNew("ok")

SpecWrapper == Init /\ [][NextWrapper]_vars

\* ------------------------------------------------------------ properties
ActiveCount == GetActivePageCount(flash)

\* No call is in progress and the engine is initialised.
Ready == pc = "idle" /\ g_bEEPROMInitialized

\* SoftEEPROMInit has returned, and it is the last call made.
InitReturned == pc = "idle" /\ last.op = "init"

\* The entries of usID in the used part of the active page.
Hits(usID) ==
    {a \in (g_pucActivePage + 2)..(g_pucNextAvailEntry - 1) : flash[a][1] = usID}

Newest(S) == CHOOSE a \in S : \A b \in S : a >= b

\* C1 - crash safety of write: when a reset has fallen between two medium
\* operations of SoftEEPROMWrite(k, v), page swap included, the next
\* SoftEEPROMInit returns 0 and afterwards every key other than k reads the
\* value it had before the write, and k reads that value or v.
WriteCrashSafe ==
    (InitReturned /\ crash.op = "write") =>
        /\ ret = 0
        /\ g_bEEPROMInitialized
        /\ \A k \in Keys \ {crash.id} : CurRead(k) = shadow[k]
        /\ CurRead(crash.id) \in {shadow[crash.id], crash.data}

\* A write of a key that had a value was interrupted right before its own
\* entry was programmed, and SoftEEPROMInit has run since.
WriteCrashSafeWitness ==
    /\ InitReturned
    /\ ret = 0
    /\ crash.op = "write"
    /\ crash.pc = "write_entry"
    /\ \A k \in Keys : shadow[k] # NotFound
    /\ crash.data # shadow[crash.id]

\* C2 - round trip: with no call interrupted since, every key that was
\* written successfully reads found, with the value of its last successful
\* write, whatever was written to the other keys and however many page swaps
\* that took.
RoundTrip ==
    (Ready /\ crash.op = "none") =>
        \A k \in Keys :
            shadow[k] # NotFound =>
                LET r == ReadEntry(flash, g_pucActivePage, g_pucNextAvailEntry, k) IN
                r.found /\ r.data = shadow[k]

\* A write to one key has swapped pages, and the other key still has the
\* value written to it before.
RoundTripWitness ==
    /\ Ready
    /\ crash.op = "none"
    /\ last.op = "write"
    /\ last.swap
    /\ ret = 0
    /\ \E k \in Keys \ {last.id} : shadow[k] # NotFound /\ CurRead(k) = shadow[k]

\* C3 - last write wins: a read delivers the entry of the key that is closest
\* to g_pucNextAvailEntry in the active page, not found when there is none,
\* and after a successful write of a key that is the value just written.
LastWriteWins ==
    Ready =>
        /\ \A k \in Keys :
              LET r == ReadEntry(flash, g_pucActivePage, g_pucNextAvailEntry, k) IN
              IF Hits(k) = {} THEN ~r.found
              ELSE r.found /\ r.data = flash[Newest(Hits(k))][2]
        /\ (last.op = "write" /\ ret = 0) => CurRead(last.id) = last.data

\* One key has been written three times in a row into one page, no clear in
\* between, with three values.
LastWriteWinsWitness ==
    /\ Ready
    /\ last.op = "write"
    /\ ret = 0
    /\ \E a \in Addrs :
          /\ a >= g_pucActivePage + 2
          /\ a + 2 = g_pucNextAvailEntry - 1
          /\ \A i \in 0..2 : flash[a + i][1] = last.id
          /\ flash[a][2] # flash[a + 1][2]
          /\ flash[a + 1][2] # flash[a + 2][2]
          /\ flash[a][2] # flash[a + 2][2]

\* C4 - transparent compaction: a write of a valid key that finds the active
\* page full returns 0, leaves another page active, and afterwards the key
\* written reads the new value and every other key what it read before.
TransparentCompaction ==
    (pc = "idle" /\ last.op = "write" /\ last.swap) =>
        /\ ret = 0
        /\ g_pucActivePage # last.from
        /\ PageIsActive(flash, g_pucActivePage)
        /\ CurRead(last.id) = last.data
        /\ \A k \in Keys \ {last.id} : CurRead(k) = shadow[k]

\* A write has swapped pages while both keys had values.
TransparentCompactionWitness ==
    /\ pc = "idle"
    /\ last.op = "write"
    /\ last.swap
    /\ ret = 0
    /\ g_pucActivePage = NextPageOf(last.from)
    /\ \A k \in Keys : CurRead(k) # NotFound

ClearCrashRecovers ==
    (crash.op = "clear" /\ last.op = "init" /\ pc \in {"idle", "trap"}) =>
        /\ pc = "idle"
        /\ ret = 0
        /\ g_bEEPROMInitialized
        /\ ActiveCount = 1
        /\ \A p \in PageStarts :
              PageIsUsed(flash, p) => WordGT(flash[g_pucActivePage], flash[p])
        /\ \A k \in Keys : CurRead(k) = NotFound

ExactlyOnce == overwrite = FALSE

\* Entries and both status words have been programmed, pages erased and
\* programmed again, across a reset.
ExactlyOnceWitness ==
    /\ Ready
    /\ crash.op # "none"
    /\ flash[g_pucActivePage] = <<0, MaxGen>>
    /\ g_pucNextAvailEntry > g_pucActivePage + 2
    /\ GetUsedPageCount(flash) > 0
    /\ ~overwrite

\* C9 - program read-back verification: when FlashProgram reports success
\* and a word read back differs from the word to be written, PageDataWrite
\* returns a failure.
ProgramVerified == pdw.mismatch => pdw.rc # 0

NotInitGuard ==
    [][/\ (g_bEEPROMInitialized' /\ ~g_bEEPROMInitialized) =>
              (last'.op = "init" /\ pc' = "idle" /\ ret' = 0)
       /\ (last'.op = "init" /\ pc' = "idle" /\ ret' = 0) => g_bEEPROMInitialized'
       /\ (~g_bEEPROMInitialized' /\ g_bEEPROMInitialized) => last'.op = "reset"
       /\ last'.op = "reset" => ~g_bEEPROMInitialized'
       /\ ~g_bEEPROMInitialized =>
              \A usID \in IDInputs :
                  (\/ \E usData \in Values : SoftEEPROMWrite(usID, usData, "ok")
                   \/ SoftEEPROMRead(usID)
                   \/ SoftEEPROMClear("ok")) =>
                      /\ ret' = ERR_NOT_INIT
                      /\ pc' = "idle"
                      /\ UNCHANGED <<flash, pdw, overwrite, g_bEEPROMInitialized,
                                     g_pucActivePage, g_pucNextAvailEntry>>]_vars

\* After a reset of an engine that held entries, a clear was turned down.
NotInitGuardWitness ==
    /\ pc = "idle"
    /\ ~g_bEEPROMInitialized
    /\ last.op = "clear"
    /\ ret = ERR_NOT_INIT
    /\ ActiveCount = 1
    /\ \E p \in PageStarts : PageIsActive(flash, p) /\ flash[p + 2] # ERASED_WORD

\* C12 - init exactly once: SoftEEPROMInit called with the engine already
\* initialised returns an error and changes neither the medium nor
\* g_pucActivePage nor g_pucNextAvailEntry.
InitOnce ==
    [][(g_bEEPROMInitialized /\ SoftEEPROMInit("ok")) =>
           /\ pc' = "idle"
           /\ ret' # 0
           /\ UNCHANGED <<flash, g_pucActivePage, g_pucNextAvailEntry>>]_vars

\* C13 - clear erases all keys: after SoftEEPROMClear has returned 0 the page
\* that was active is used, the page after it is active with its counter
\* plus one, g_pucNextAvailEntry is at that page's first entry, and every key
\* reads not found, until it is written again.
ClearErasesAll ==
    /\ (pc = "idle" /\ last.op = "clear" /\ ret = 0) =>
          /\ PageIsUsed(flash, last.from)
          /\ g_pucActivePage = NextPageOf(last.from)
          /\ PageIsActive(flash, g_pucActivePage)
          /\ flash[g_pucActivePage] = WordInc(flash[last.from])
          /\ g_pucNextAvailEntry = g_pucActivePage + 2
          /\ \A k \in Keys :
                ~ReadEntry(flash, g_pucActivePage, g_pucNextAvailEntry, k).found
    /\ (Ready /\ crash.op = "none") =>
          \A k \in Keys :
              shadow[k] = NotFound =>
                  ~ReadEntry(flash, g_pucActivePage, g_pucNextAvailEntry, k).found

\* A clear of a page that held entries has returned 0.
ClearErasesAllWitness ==
    /\ pc = "idle"
    /\ last.op = "clear"
    /\ ret = 0
    /\ flash[last.from + 2] # ERASED_WORD
    /\ flash[last.from] # <<0, 0>>

\* C14 - read is pure: SoftEEPROMRead, whatever the key and the state of the
\* engine, erases and programs nothing and leaves the medium,
\* g_pucActivePage, g_pucNextAvailEntry and g_bEEPROMInitialized as they were.
ReadPure ==
    [][\A usID \in IDInputs :
          SoftEEPROMRead(usID) =>
              UNCHANGED <<flash, pdw, overwrite, g_bEEPROMInitialized,
                          g_pucActivePage, g_pucNextAvailEntry>>]_vars

\* A read has returned 0 with entries of both keys in the page, the newest
\* of them not the last entry.
ReadPureWitness ==
    /\ Ready
    /\ last.op = "read"
    /\ ret = 0
    /\ \A k \in Keys : Hits(k) # {}
    /\ \E k \in Keys : Newest(Hits(k)) < g_pucNextAvailEntry - 1

\* C15 - an absent key reads as erased: for a valid key not written since
\* the last clear SoftEEPROMRead returns 0 with found false and data 0xFFFF,
\* and SoftEEPROM_WrapperRead delivers 0xFF for every byte not written since
\* the last clear.
AbsentKeyErased ==
    /\ Ready =>
          \A k \in Keys :
              shadow[k] = NotFound =>
                  /\ ReadReturn(g_bEEPROMInitialized, k) = 0
                  /\ ReadEntry(flash, g_pucActivePage, g_pucNextAvailEntry, k) =
                         [found |-> FALSE, data |-> HALF - 1]
    /\ (Ready /\ wr.op = "read" /\ wr.state = "done" /\ wr.rc = 0) =>
          /\ Len(wr.buf) = wr.n0
          /\ \A i \in 1..wr.n0 :
                (wr.a0 + i - 1) \in wr.unwritten => wr.buf[i] = 255

\* SoftEEPROM_WrapperRead has returned a range that holds a byte written
\* and, in the same word, a byte never written, and one key is absent.
AbsentKeyErasedWitness ==
    /\ Ready
    /\ wr.op = "read"
    /\ wr.state = "done"
    /\ wr.rc = 0
    /\ \E i \in 1..(wr.n0 - 1) :
          /\ (wr.a0 + i - 1) \div 2 = (wr.a0 + i) \div 2
          /\ (wr.a0 + i - 1) \in wr.unwritten
          /\ (wr.a0 + i) \notin wr.unwritten
    /\ \E k \in Keys : shadow[k] = NotFound

\* SoftEEPROMWrite is inside PageSwap: in one of its later steps, or at the
\* call that finds the active page full.
InPageSwap ==
    \/ pc \in {"swap_copy", "swap_mark_new", "swap_mark_old"}
    \/ /\ pc = "idle"
       /\ g_bEEPROMInitialized
       /\ ~WriteIDIllegal(last'.id)
       /\ PageIsFull(g_pucActivePage, g_pucNextAvailEntry)

\* C16 - swap error tagging: the code SoftEEPROMWrite returns has the
\* ERR_SWAP bit set exactly when the failure happened inside PageSwap; a
\* failure before the swap or in the write of the entry after it is returned
\* without the bit.
SwapErrorTagged ==
    [][(last'.op = "write" /\ pc' = "idle" /\ pc \in {"idle", "swap_copy",
            "swap_mark_new", "swap_mark_old", "write_entry"}) =>
          ((ret' \div ERR_SWAP) % 2 = 1 <=> (ret' # 0 /\ InPageSwap))]_vars

\* A write has failed in a PageDataWrite of PageSwap.
SwapErrorTaggedWitness ==
    /\ pc = "idle"
    /\ last.op = "write"
    /\ last.swap
    /\ ret = ERR_SWAP + ERR_PG_WRITE

\* C17 - a medium failure leaves a recoverable state: a write, page swap or
\* clear in which an erase or a program reports failure returns an error at
\* that step, and after a reset SoftEEPROMInit, on a medium that works,
\* returns 0 and has adopted one page, which is marked active.
FaultRecoverable ==
    /\ (faults > 0 /\ last.op \in {"write", "clear"}) => (pc = "idle" /\ ret # 0)
    /\ (faults > 0 /\ last.op = "init" /\ pc \in {"idle", "trap"}) =>
          /\ pc = "idle"
          /\ ret = 0
          /\ g_bEEPROMInitialized
          /\ g_pucActivePage \in PageStarts
          /\ PageIsActive(flash, g_pucActivePage)

\* C18 - wrapper range check: when the last byte address of the range,
\* usAddress + usSize - 1, is 2 * MAX_SOFTEEPROM_IDS or more,
\* SoftEEPROM_WrapperWrite returns the range error before it calls
\* SoftEEPROMWrite, and no byte of any key changes.
WrapperRangeChecked ==
    (wr.op = "write" /\ wr.a0 + wr.n0 - 1 >= 2 * NUM_IDS) =>
        /\ wr.state = "done"
        /\ wr.rc = ERR_PAGE_RANGE
        /\ ~wr.called
        /\ ByteView = wr.before

\* SoftEEPROM_WrapperWrite has returned 0.
WrapperWritten == pc = "idle" /\ wr.op = "write" /\ wr.state = "done" /\ wr.rc = 0

\* C19 - wrapper byte round trip: after SoftEEPROM_WrapperWrite(a, n, data)
\* has returned 0, SoftEEPROM_WrapperRead(a, n, buf) returns 0 and delivers
\* the n bytes of data, in order, whatever the parities of a and n.
WrapperRoundTrip ==
    WrapperWritten =>
        LET r == WrapperReadResult(wr.a0, wr.n0) IN
        /\ ~WrapperRangeError(wr.a0, wr.n0)
        /\ r.rc = 0
        /\ Len(r.buf) = wr.n0
        /\ \A i \in 1..wr.n0 : r.buf[i] = wr.data[i]

\* A write of MaxLen bytes from an odd address has returned 0, and its last
\* SoftEEPROMWrite went through a page swap.
WrapperRoundTripWitness ==
    /\ WrapperWritten
    /\ wr.a0 % 2 = 1
    /\ wr.n0 = MaxLen
    /\ last.swap

\* C20 - wrapper write preserves the neighbouring bytes: after
\* SoftEEPROM_WrapperWrite(a, n, data) has returned 0 every byte address
\* outside [a, a + n) reads as it did before the call: the low byte of key
\* a / 2 when a is odd, the high byte of the last key when the range ends on
\* an even address.
WrapperNeighboursKept ==
    WrapperWritten =>
        \A b \in ByteAddrs \ (wr.a0..(wr.a0 + wr.n0 - 1)) : ByteAt(b) = wr.before[b]

\* A write from an odd address that ends on an even one has returned 0; the
\* byte before the range and the byte after it had been written.
WrapperNeighboursKeptWitness ==
    /\ WrapperWritten
    /\ wr.a0 % 2 = 1
    /\ (wr.a0 + wr.n0 - 1) % 2 = 0
    /\ wr.before[wr.a0 - 1] # 255
    /\ wr.before[wr.a0 + wr.n0] # 255

\* A configuration SoftEEPROMInit has to turn down: a page size that is not
\* a multiple of the erase unit, a region of fewer than 2 pages, or a page
\* with fewer than 2 * MAX_SOFTEEPROM_IDS entries.
BadConfig(ulEnd, ulSize) ==
    \/ ulSize % FLASH_ERASE_SIZE # 0
    \/ (ulEnd - EEPROMStart) \div ulSize < 2
    \/ ulSize - 2 < 2 * NUM_IDS

\* C21 - SoftEEPROMInit validates its configuration: called with a page
\* size the erase unit does not divide, a region of fewer than 2 pages or a
\* page of fewer than 2 * MAX_SOFTEEPROM_IDS entries it returns an error,
\* erases and programs nothing and leaves the engine uninitialised.
InitValidatesConfig ==
    [][\A ulEnd \in EndInputs, ulSize \in SizeInputs :
          (BadConfig(ulEnd, ulSize) /\ SoftEEPROMInitArgs(ulEnd, ulSize)) =>
              /\ pc' = "idle"
              /\ ret' # 0
              /\ ~g_bEEPROMInitialized'
              /\ UNCHANGED <<flash, pdw, overwrite>>]_vars

\* C22 - the state is recomputed from the medium: when the device is reset
\* with the engine initialised and no call in progress, the next
\* SoftEEPROMInit erases and programs nothing, returns 0 and sets
\* g_pucActivePage and g_pucNextAvailEntry to the values they had before the
\* reset, so that every key reads as it did.
StateRecomputed ==
    (last.op = "init" /\ last.held # NoHeld) =>
        /\ pc = "idle"
        /\ ret = 0
        /\ g_bEEPROMInitialized
        /\ <<g_pucActivePage, g_pucNextAvailEntry>> = last.held
        /\ crash.op = "none" => \A k \in Keys : CurRead(k) = shadow[k]

\* SoftEEPROMInit has returned after such a reset; the page it adopts holds
\* entries and free slots, and the page before it is used.
StateRecomputedWitness ==
    /\ InitReturned
    /\ last.held # NoHeld
    /\ PageIsUsed(flash, PrevPageOf(g_pucActivePage))
    /\ g_pucNextAvailEntry > g_pucActivePage + 2
    /\ g_pucNextAvailEntry < g_pucActivePage + PageWords

\* The words of one page, and a step that changes no word outside S.
PageAddrs(page) == page..(page + PageWords - 1)
OnlyChanged(S) == \A a \in Addrs \ S : flash'[a] = flash[a]

\* C23 - order of the steps of a page swap: PageSwap erases the new page,
\* then programs the copied entries into it, then programs its first status
\* word with the counter of the full page plus one, then programs the second
\* status word of the full page; while it runs, at least one page is active.
SwapStepOrder ==
    [][/\ (pc = "idle" /\ pc' = "swap_copy") =>
             /\ loc'.full = g_pucActivePage
             /\ loc'.page = NextPageOf(g_pucActivePage)
             /\ OnlyChanged(PageAddrs(loc'.page))
             /\ \A a \in PageAddrs(loc'.page) : flash'[a] = ERASED_WORD
       /\ pc = "swap_copy" =>
             /\ pc' \in {"swap_copy", "swap_mark_new", "idle"}
             /\ OnlyChanged(PageAddrs(loc.page) \ {loc.page, loc.page + 1})
       /\ pc = "swap_mark_new" =>
             /\ pc' \in {"swap_mark_old", "idle"}
             /\ OnlyChanged({loc.page})
             /\ pc' = "swap_mark_old" =>
                    /\ flash'[loc.page] = WordInc(flash[loc.full])
                    /\ PageIsActive(flash', loc.page)
       /\ pc = "swap_mark_old" =>
             /\ pc' \in {"write_entry", "idle"}
             /\ OnlyChanged({loc.full + 1})
             /\ pc' = "write_entry" =>
                    /\ PageIsUsed(flash', loc.full)
                    /\ PageIsActive(flash', loc.page)
       /\ pc' \in {"swap_copy", "swap_mark_new", "swap_mark_old"} =>
             PageIsActive(flash', loc'.full)]_vars

\* The new page holds the copied entries and has just been marked active,
\* one generation after the full page, which is not yet marked used.
SwapStepOrderWitness ==
    /\ pc = "swap_mark_old"
    /\ ActiveCount = 2
    /\ flash[loc.page] = WordInc(flash[loc.full])
    /\ flash[loc.full] # <<0, 0>>
    /\ flash[loc.page + 3] # ERASED_WORD

\* The entries of a page, the ids they carry, and the newest entry of an id.
EntryAddrs(page) == (page + 2)..(page + PageWords - 1)
IdsIn(page) == {flash[a][1] : a \in {b \in EntryAddrs(page) : flash[b] # ERASED_WORD}}
NewestOf(page, id) == Newest({a \in EntryAddrs(page) : flash[a][1] = id})

\* C24 - a page swap carries exactly the newest entry of every key: when
\* PageSwap has returned 0, the new page holds, from its first entry up to
\* g_pucNextAvailEntry, one entry for each id present in the full page, the
\* word of the last entry written for that id, no entry of any other id, and
\* erased words from g_pucNextAvailEntry to its end.
SwapCarriesNewest ==
    pc = "write_entry" =>
        LET copied == (g_pucActivePage + 2)..(g_pucNextAvailEntry - 1) IN
        /\ g_pucActivePage = NextPageOf(loc.full)
        /\ \A id \in IdsIn(loc.full) :
              /\ Cardinality({a \in copied : flash[a][1] = id}) = 1
              /\ \A a \in copied :
                    flash[a][1] = id => flash[a] = flash[NewestOf(loc.full, id)]
        /\ \A a \in copied : flash[a][1] \in IdsIn(loc.full)
        /\ \A a \in EntryAddrs(g_pucActivePage) \ copied : flash[a] = ERASED_WORD

\* PageSwap has returned 0 for a full page that holds one key in its first
\* entry only and the other key in all the entries after it.
SwapCarriesNewestWitness ==
    /\ pc = "write_entry"
    /\ IdsIn(loc.full) = Keys
    /\ NewestOf(loc.full, flash[loc.full + 2][1]) = loc.full + 2
    /\ g_pucNextAvailEntry = g_pucActivePage + 2 + NUM_IDS

\* The used page with the highest counter.
NewestUsedPage ==
    CHOOSE p \in PageStarts :
        /\ PageIsUsed(flash, p)
        /\ \A q \in PageStarts : PageIsUsed(flash, q) => ~WordGT(flash[q], flash[p])

\* C25 - recovery with no active page and some used page: SoftEEPROMInit
\* takes the used page with the highest counter g, 0 included, erases the
\* page after it, programs that page active with the counter g + 1, sets
\* g_pucActivePage to it and g_pucNextAvailEntry to its first entry, and
\* returns 0.
RecoverFromUsed ==
    [][/\ (pc = "idle" /\ ActiveCount = 0 /\ GetUsedPageCount(flash) > 0
            /\ SoftEEPROMInit("ok")) =>
             /\ pc' = "init_mark"
             /\ loc'.page = NextPageOf(NewestUsedPage)
             /\ OnlyChanged(PageAddrs(loc'.page))
             /\ \A a \in PageAddrs(loc'.page) : flash'[a] = ERASED_WORD
       /\ (pc = "init_mark" /\ ActiveCount = 0 /\ GetUsedPageCount(flash) > 0
            /\ InitMark("ok")) =>
             /\ loc.page = NextPageOf(NewestUsedPage)
             /\ OnlyChanged({loc.page})
             /\ flash'[loc.page] = WordInc(flash[NewestUsedPage])
             /\ PageIsActive(flash', loc.page)
             /\ g_pucActivePage' = loc.page
             /\ g_pucNextAvailEntry' = loc.page + 2
             /\ g_bEEPROMInitialized'
             /\ pc' = "idle"
             /\ ret' = 0]_vars

\* The active pages whose last entry is programmed.
FullActivePages ==
    {p \in PageStarts : PageIsActive(flash, p) /\ flash[p + PageWords - 1] # ERASED_WORD}

\* C26 - recovery with two active pages: when SoftEEPROMInit finds two
\* active pages, one of them with its last entry programmed, it erases and
\* programs nothing, adopts that page with g_pucNextAvailEntry just past its
\* end and returns 0; the next SoftEEPROMWrite of a valid id starts a page
\* swap that erases the other page, and when that write has returned 0 one
\* page is active.
RecoverTwoActive ==
    [][/\ (pc = "idle" /\ ActiveCount = 2 /\ FullActivePages # {}
            /\ SoftEEPROMInit("ok")) =>
             /\ UNCHANGED <<flash, pdw, overwrite>>
             /\ g_pucActivePage' \in FullActivePages
             /\ g_pucNextAvailEntry' = g_pucActivePage' + PageWords
             /\ g_bEEPROMInitialized'
             /\ pc' = "idle"
             /\ ret' = 0
       /\ (Ready /\ ActiveCount = 2 /\ last'.op = "write" /\ ~WriteIDIllegal(last'.id)) =>
             /\ pc' = "swap_copy"
             /\ loc'.full = g_pucActivePage
             /\ \A a \in PageAddrs(NextPageOf(g_pucActivePage)) : flash'[a] = ERASED_WORD
             /\ GetActivePageCount(flash') = 1
       /\ (pc' = "idle" /\ pc # "idle" /\ last'.op = "write" /\ last'.swap /\ ret' = 0) =>
             /\ GetActivePageCount(flash') = 1
             /\ g_pucActivePage' = NextPageOf(last'.from)
             /\ PageIsActive(flash', g_pucActivePage')]_vars

\* SoftEEPROMInit has adopted the full one of two active pages.
RecoverTwoActiveWitness ==
    /\ InitReturned
    /\ ret = 0
    /\ ActiveCount = 2
    /\ g_pucActivePage \in FullActivePages
    /\ g_pucNextAvailEntry = g_pucActivePage + PageWords

OnlyActivePage == CHOOSE p \in PageStarts : PageIsActive(flash, p)

PageIsErased(page) == flash[page] = ERASED_WORD /\ flash[page + 1] = ERASED_WORD

\* The first erased entry of a page, or the end of the page if it has none.
FirstErasedSlot(page) ==
    LET E == {a \in EntryAddrs(page) : flash[a] = ERASED_WORD} IN
    IF E = {} THEN page + PageWords
    ELSE CHOOSE a \in E : \A b \in E : a <= b

\* One page is active and the page before it is erased, or used with a
\* counter one less than the active page's.
ConsistentActive ==
    /\ ActiveCount = 1
    /\ LET P == PrevPageOf(OnlyActivePage) IN
       \/ PageIsErased(P)
       \/ PageIsUsed(flash, P) /\ flash[P] = WordDec(flash[OnlyActivePage])

\* C28 - recovery of a consistent medium: when SoftEEPROMInit finds exactly
\* one active page and the page before it (round robin) is erased, or is used
\* with a counter one less than the active page's, it erases and programs
\* nothing, takes the active page as g_pucActivePage and the first erased
\* entry of that page (the end of the page if there is none) as
\* g_pucNextAvailEntry, and returns 0.
ConsistentRecovery ==
    [][(pc = "idle" /\ ConsistentActive /\ SoftEEPROMInit("ok")) =>
          /\ UNCHANGED <<flash, pdw, overwrite>>
          /\ g_pucActivePage' = OnlyActivePage
          /\ g_pucNextAvailEntry' = FirstErasedSlot(OnlyActivePage)
          /\ g_bEEPROMInitialized'
          /\ ret' = 0
          /\ pc' = "idle"]_vars

\* SoftEEPROMInit has returned 0 on a medium whose second page is the only
\* active one, with some entries programmed and some erased, after a used
\* first page with the counter before.
ConsistentRecoveryWitness ==
    /\ InitReturned
    /\ ret = 0
    /\ ConsistentActive
    /\ OnlyActivePage # EEPROMStart
    /\ PageIsUsed(flash, PrevPageOf(OnlyActivePage))
    /\ g_pucActivePage = OnlyActivePage
    /\ g_pucNextAvailEntry = FirstErasedSlot(OnlyActivePage)
    /\ g_pucNextAvailEntry > OnlyActivePage + 2
    /\ g_pucNextAvailEntry < OnlyActivePage + PageWords
    /\ last.held # NoHeld

\* One page is active and the page before it is used with a counter that is
\* not one less than the active page's.
StaleGeneration ==
    /\ ActiveCount = 1
    /\ PageIsUsed(flash, PrevPageOf(OnlyActivePage))
    /\ flash[PrevPageOf(OnlyActivePage)] # WordDec(flash[OnlyActivePage])

\* C29 - repair of a stale counter: when SoftEEPROMInit finds exactly one
\* active page and the page before it (round robin) is used with a counter
\* that is not one less than the active page's, it erases the active page and
\* then programs its first status word with the used page's counter plus one,
\* which makes it active again; it takes that page as g_pucActivePage and its
\* first entry as g_pucNextAvailEntry and returns 0, and every key then reads
\* as not found.
StaleRepair ==
    [][/\ (pc = "idle" /\ StaleGeneration /\ SoftEEPROMInit("ok")) =>
             /\ pc' = "init_mark"
             /\ loc'.page = OnlyActivePage
             /\ loc'.cnt = WordInc(flash[PrevPageOf(OnlyActivePage)])
             /\ OnlyChanged(PageAddrs(OnlyActivePage))
             /\ \A a \in PageAddrs(OnlyActivePage) : flash'[a] = ERASED_WORD
       /\ (pc = "init_mark" /\ ActiveCount = 0 /\ PageIsUsed(flash, PrevPageOf(loc.page))
            /\ InitMark("ok")) =>
             /\ OnlyChanged({loc.page})
             /\ flash'[loc.page] = WordInc(flash[PrevPageOf(loc.page)])
             /\ PageIsActive(flash', loc.page)
             /\ g_pucActivePage' = loc.page
             /\ g_pucNextAvailEntry' = loc.page + 2
             /\ g_bEEPROMInitialized'
             /\ ret' = 0
             /\ pc' = "idle"
             /\ \A k \in Keys :
                   ReadVal(flash', g_pucActivePage', g_pucNextAvailEntry', k) = NotFound
      ]_vars

\* The first step of the repair has run: the page that was active with a
\* counter cut short by a power loss in SoftEEPROMClear is erased, and the
\* page before it is used.
StaleRepairWitness ==
    /\ pc = "init_mark"
    /\ last.op = "init"
    /\ crash.op = "clear"
    /\ ActiveCount = 0
    /\ PageIsUsed(flash, PrevPageOf(loc.page))
    /\ PageIsErased(loc.page)
    /\ loc.cnt = WordInc(flash[PrevPageOf(loc.page)])
    /\ loc.cnt # <<0, 0>>

\* No page is active and none is used.
FreshMedium ==
    \A p \in PageStarts : ~PageIsActive(flash, p) /\ ~PageIsUsed(flash, p)

\* C30 - recovery of a fresh medium: when SoftEEPROMInit finds no active and
\* no used page, it erases the first page and then programs that page's first
\* status word with the counter 0, which makes it active; it takes the first
\* page as g_pucActivePage and its first entry as g_pucNextAvailEntry and
\* returns 0, and every key then reads as not found.
FreshRecovery ==
    [][/\ (pc = "idle" /\ FreshMedium /\ SoftEEPROMInit("ok")) =>
             /\ pc' = "init_mark"
             /\ loc'.page = EEPROMStart
             /\ loc'.cnt = <<0, 0>>
             /\ OnlyChanged(PageAddrs(EEPROMStart))
             /\ \A a \in PageAddrs(EEPROMStart) : flash'[a] = ERASED_WORD
       /\ (pc = "init_mark" /\ FreshMedium /\ InitMark("ok")) =>
             /\ OnlyChanged({EEPROMStart})
             /\ flash'[EEPROMStart] = <<0, 0>>
             /\ PageIsActive(flash', EEPROMStart)
             /\ g_pucActivePage' = EEPROMStart
             /\ g_pucNextAvailEntry' = EEPROMStart + 2
             /\ g_bEEPROMInitialized'
             /\ ret' = 0
             /\ pc' = "idle"
             /\ \A k \in Keys :
                   ReadVal(flash', g_pucActivePage', g_pucNextAvailEntry', k) = NotFound
      ]_vars

\* SoftEEPROMInit has returned 0 on a medium that had no active and no used
\* page: the first page is active with the counter 0 and holds no entry, the
\* other pages are erased.
FreshRecoveryWitness ==
    /\ InitReturned
    /\ ret = 0
    /\ g_bEEPROMInitialized
    /\ flash[EEPROMStart] = <<0, 0>>
    /\ PageIsActive(flash, EEPROMStart)
    /\ g_pucActivePage = EEPROMStart
    /\ g_pucNextAvailEntry = EEPROMStart + 2
    /\ \A a \in Addrs \ {EEPROMStart} : flash[a] = ERASED_WORD
    /\ \A k \in Keys : CurRead(k) = NotFound

\* The counter of every active page is greater than that of every used page.
ActiveAboveUsed ==
    \A a, u \in PageStarts :
        (PageIsActive(flash, a) /\ PageIsUsed(flash, u)) => WordGT(flash[a], flash[u])

\* C31 - order of the counters: in every state reached from an erased medium
\* by SoftEEPROMInit, SoftEEPROMWrite, SoftEEPROMClear and resets, the counter
\* of every active page is greater than the counter of every used page; and a
\* page that a page swap or a clear makes active gets the counter of the page
\* that was active before it, plus one.
GenerationOrder ==
    /\ []ActiveAboveUsed
    /\ [][/\ (pc = "swap_mark_new" /\ SwapMarkNew("ok")) =>
                /\ loc.full = g_pucActivePage
                /\ ~PageIsActive(flash, loc.page)
                /\ PageIsActive(flash', loc.page)
                /\ flash'[loc.page] = WordInc(flash[g_pucActivePage])
          /\ (pc = "clear_mark_new" /\ ClearMarkNew("ok")) =>
                /\ ~PageIsActive(flash, loc.page)
                /\ PageIsActive(flash', loc.page)
                /\ flash'[loc.page] = WordInc(flash[g_pucActivePage])
         ]_vars

\* A page swap has returned 0 after the counter was raised twice: the active
\* page has the counter 2, the used one the counter 1.
GenerationOrderWitness ==
    /\ Ready
    /\ last.op = "write"
    /\ last.swap
    /\ ret = 0
    /\ PageIsActive(flash, g_pucActivePage)
    /\ flash[g_pucActivePage] = <<0, 2>>
    /\ PageIsUsed(flash, PrevPageOf(g_pucActivePage))
    /\ flash[PrevPageOf(g_pucActivePage)] = <<0, 1>>

\* The page after page in the region, the first one after the last.
RoundRobinNext(page) ==
    IF page + PageWords >= EEPROMEnd THEN EEPROMStart ELSE page + PageWords

\* The step belongs to a SoftEEPROMWrite that swaps pages or to a
\* SoftEEPROMClear of an initialised engine.
RotatingStep ==
    /\ last'.from # NullPtr
    /\ last'.op = "clear" \/ (last'.op = "write" /\ last'.swap)

\* C32 - rotation of the pages: a SoftEEPROMWrite that swaps pages and a
\* SoftEEPROMClear move g_pucActivePage, when they move it, to the page after
\* the one that was active when they were called, the first page of the
\* region after the last; and they erase and program nothing outside that
\* page except the second status word of the page that was active.
RoundRobin ==
    [][RotatingStep =>
          /\ OnlyChanged(PageAddrs(RoundRobinNext(last'.from)) \cup {last'.from + 1})
          /\ g_pucActivePage' # g_pucActivePage =>
                /\ g_pucActivePage = last'.from
                /\ g_pucActivePage' = RoundRobinNext(last'.from)
      ]_vars

\* A write has swapped from the last page of the region to the first and
\* returned 0.
RoundRobinWitness ==
    /\ Ready
    /\ last.op = "write"
    /\ last.swap
    /\ ret = 0
    /\ last.from = EEPROMEnd - PageWords
    /\ g_pucActivePage = EEPROMStart
    /\ PageIsUsed(flash, last.from)

UsedCount == GetUsedPageCount(flash)

\* SoftEEPROMWrite or SoftEEPROMClear has returned 0.
UpdateReturned == Ready /\ last.op \in {"write", "clear"} /\ ret = 0

\* What the steps of a page swap do to the number of used pages: the erase of
\* the new page takes one away if that page was used, and then every page but
\* the full one was used; the mark on the full page adds one; the steps in
\* between leave the number alone.
SwapUsedCount ==
    [][/\ (pc = "idle" /\ pc' = "swap_copy") =>
             /\ PageIsUsed(flash, loc'.page) =>
                   /\ GetUsedPageCount(flash') = UsedCount - 1
                   /\ \A p \in PageStarts \ {loc'.full} : PageIsUsed(flash, p)
             /\ ~PageIsUsed(flash, loc'.page) => GetUsedPageCount(flash') = UsedCount
       /\ (pc \in {"swap_copy", "swap_mark_new", "write_entry"}
            /\ pc' \in {"swap_copy", "swap_mark_new", "swap_mark_old", "idle"}
            /\ last' = last) =>
             GetUsedPageCount(flash') = UsedCount
       /\ (pc = "swap_mark_old" /\ pc' = "write_entry") =>
             GetUsedPageCount(flash') = UsedCount + 1
      ]_vars

LogStructure ==
    Ready =>
        /\ g_pucActivePage \in PageStarts
        /\ g_pucActivePage + 2 <= g_pucNextAvailEntry
        /\ g_pucNextAvailEntry <= g_pucActivePage + PageWords
        /\ \A a \in (g_pucActivePage + 2)..(g_pucNextAvailEntry - 1) :
              flash[a] # ERASED_WORD /\ flash[a][1] < NUM_IDS
        /\ \A a \in g_pucNextAvailEntry..(g_pucActivePage + PageWords - 1) :
              flash[a] = ERASED_WORD

\* A write has returned 0 on the second page with entries programmed below
\* g_pucNextAvailEntry and erased ones from it on.
LogStructureWitness ==
    /\ UpdateReturned
    /\ last.op = "write"
    /\ g_pucActivePage = EEPROMStart + PageWords
    /\ g_pucNextAvailEntry > g_pucActivePage + 3
    /\ g_pucNextAvailEntry < g_pucActivePage + PageWords
    /\ \A a \in (g_pucActivePage + 2)..(g_pucNextAvailEntry - 1) : flash[a] # ERASED_WORD

\* C35 - the classification of a page depends on its two status words only:
\* a page is active exactly if its first status word is not the erased word
\* and its second is, used exactly if neither is the erased word, and never
\* both; classifying a page changes nothing on the medium, and classifying
\* the same page again, the medium unchanged, gives the same result.
ClassificationPure ==
    [][\A page \in PageStarts :
          Classify(page) =>
              /\ UNCHANGED <<flash, pdw, overwrite>>
              /\ ret' \in {0, 1, 2}
              /\ ret' = 1 <=> (flash[page] # ERASED_WORD /\ flash[page + 1] = ERASED_WORD)
              /\ ret' = 2 <=> (flash[page] # ERASED_WORD /\ flash[page + 1] # ERASED_WORD)
              /\ (last.op = "classify" /\ last.from = page) => ret' = ret
      ]_vars

\* The second page, a counter and the used mark programmed in its status
\* words, has been classified twice in a row and found used.
ClassificationPureWitness ==
    /\ last.op = "classify"
    /\ last.data = 2
    /\ last.from = EEPROMStart + PageWords
    /\ ret = 2
    /\ flash[last.from] = <<0, 1>>
    /\ flash[last.from + 1] = USED_MARK
    /\ pdw.rc = 0
    /\ overwrite

\* The entries of page that are programmed.
ProgrammedEntries(page) == {a \in EntryAddrs(page) : flash[a] # ERASED_WORD}

\* C36 - a page swap leaves room in the new page: with pages of at least
\* 2 * MAX_SOFTEEPROM_IDS entries, PageSwap copies at most MAX_SOFTEEPROM_IDS
\* entries, leaves g_pucNextAvailEntry inside the new page, before its end,
\* and SoftEEPROMWrite never returns ERR_SWAP | ERR_AVAIL_ENTRY; PageSwap
\* returns that code exactly when g_pucNextAvailEntry is not below the end of
\* the new page after the copy.
SwapLeavesRoom ==
    /\ [](ret # SwapError(ERR_AVAIL_ENTRY))
    /\ [][(pc = "swap_mark_old" /\ SwapMarkOld("ok")) =>
              /\ PageWords - 2 >= 2 * NUM_IDS
              /\ Cardinality(ProgrammedEntries(loc.page)) <= NUM_IDS
              /\ ProgrammedEntries(loc.page) = (loc.page + 2)..(loc.entry - 1)
              /\ g_pucActivePage' = loc.page
              /\ g_pucNextAvailEntry' = loc.entry
              /\ g_pucNextAvailEntry' >= g_pucActivePage' + 2
              /\ g_pucNextAvailEntry' < g_pucActivePage' + PageWords
              /\ (pc' = "idle" /\ ret' = SwapError(ERR_AVAIL_ENTRY)) <=>
                    g_pucNextAvailEntry' >= g_pucActivePage' + PageWords
      ]_vars

\* A page swap has copied an entry of every id and is about to write the
\* entry of the call behind them.
SwapLeavesRoomWitness ==
    /\ pc = "write_entry"
    /\ g_pucActivePage = loc.page
    /\ g_pucNextAvailEntry = g_pucActivePage + 2 + NUM_IDS
    /\ {flash[a][1] : a \in ProgrammedEntries(g_pucActivePage)} = Keys

\* The device was reset between the erase and the program of a repair of
\* SoftEEPROMInit, and SoftEEPROMInit has been called since.
InitResumed == last.op = "init" /\ last.repair # NoRepair

\* C37 - the repair of SoftEEPROMInit can be resumed: when the device is
\* reset between the erase and the program of a repair (of a fresh medium,
\* of a medium with used pages and no active one, or of a stale counter),
\* the next SoftEEPROMInit returns 0 with the page the first one had erased
\* active, with the counter the first one was about to program,
\* g_pucNextAvailEntry on its first entry and every key not found: what the
\* first SoftEEPROMInit would have left had it not been interrupted.
InitResumable ==
    InitResumed =>
        /\ pc \in {"idle", "init_mark"}
        /\ pc = "init_mark" => (loc.page = last.repair[1] /\ loc.cnt = last.repair[2])
        /\ pc = "idle" =>
              /\ ret = 0
              /\ g_bEEPROMInitialized
              /\ g_pucActivePage = last.repair[1]
              /\ PageIsActive(flash, last.repair[1])
              /\ flash[last.repair[1]] = last.repair[2]
              /\ g_pucNextAvailEntry = last.repair[1] + 2
              /\ \A k \in Keys : CurRead(k) = NotFound

InWrite == pc \in {"swap_copy", "swap_mark_new", "swap_mark_old", "write_entry"}

\* The step programs the entry <<usID, usData>> at g_pucNextAvailEntry and
\* nothing else, moves g_pucNextAvailEntry one entry on and returns 0.
OneEntryWritten(usID, usData) ==
    /\ g_pucNextAvailEntry \in EntryAddrs(g_pucActivePage)
    /\ OnlyChanged({g_pucNextAvailEntry})
    /\ flash[g_pucNextAvailEntry] = ERASED_WORD
    /\ flash'[g_pucNextAvailEntry] = <<usID, usData>>
    /\ g_pucNextAvailEntry' = g_pucNextAvailEntry + 1
    /\ g_pucActivePage' = g_pucActivePage
    /\ pc' = "idle"
    /\ ret' = 0

\* C38 - a write does bounded work: on a medium that works, a SoftEEPROMWrite
\* of a valid id to an initialised engine returns 0; it runs PageSwap at most
\* once, and only when it is called; it programs exactly one entry of its
\* own, at g_pucNextAvailEntry as it is at the call or as the page swap has
\* left it in the new page, and moves g_pucNextAvailEntry one entry on.
WriteBounded ==
    /\ [][/\ \A usID \in Keys, usData \in Values :
                (g_bEEPROMInitialized /\ SoftEEPROMWrite(usID, usData, "ok")) =>
                    IF g_pucNextAvailEntry >= g_pucActivePage + PageWords
                    THEN pc' = "swap_copy"
                    ELSE OneEntryWritten(usID, usData)
          /\ (pc' = "swap_copy" /\ pc # "swap_copy") => pc = "idle"
          /\ (pc = "write_entry" /\ WriteEntry("ok")) =>
                OneEntryWritten(loc.id, loc.data)
         ]_vars
    /\ (InWrite ~> (pc = "idle" /\ last.op = "write" /\ ret = 0))

\* A write that swapped pages has returned 0 with its entry behind the
\* copies of both ids.
WriteBoundedWitness ==
    /\ UpdateReturned
    /\ last.op = "write"
    /\ last.swap
    /\ g_pucNextAvailEntry = g_pucActivePage + 2 + NUM_IDS + 1
    /\ flash[g_pucNextAvailEntry - 1] = <<last.id, last.data>>

InPageSwapScan == pc \in {"swap_copy", "swap_mark_new", "swap_mark_old"}

\* C39 - PageSwap is only ever given a full page: in every state reached
\* from an erased medium by SoftEEPROMInit, SoftEEPROMWrite, SoftEEPROMClear
\* and resets, every entry of the page PageSwap works on is programmed with
\* an id below MAX_SOFTEEPROM_IDS, so that ucIDSwapped is never indexed
\* outside its NUM_VECTOR_BYTES bytes, and no erased word is among the
\* entries copied to the new page.
SwapSeesFullPage ==
    /\ InPageSwapScan =>
          /\ \A a \in EntryAddrs(loc.full) :
                flash[a] # ERASED_WORD /\ flash[a][1] < NUM_IDS
          /\ \A a \in EntryAddrs(loc.full) : flash[a][1] \div 8 < NUM_VECTOR_BITS \div 8
          /\ \A i \in 1..Len(SwapBatches(flash, loc.full)) :
                \A j \in 1..Len(SwapBatches(flash, loc.full)[i]) :
                    SwapBatches(flash, loc.full)[i][j] # ERASED_WORD
    /\ last.op = "write" => pc # "trap"

\* PageSwap is at work on the second page, which has the counter 1: all its
\* entries are programmed and both ids are among them.
SwapSeesFullPageWitness ==
    /\ pc = "swap_copy"
    /\ crash.op = "none"
    /\ last.op = "write"
    /\ loc.full = EEPROMStart + PageWords
    /\ flash[loc.full] = <<0, 1>>
    /\ {flash[a][1] : a \in EntryAddrs(loc.full)} = Keys

\* The entries PageSwap collects from a long page: of every id the entry
\* nearest to the end of the page.
Collected(page) ==
    {a \in (page + 2)..(page + BufPageWords - 1) :
        \A b \in (a + 1)..(page + BufPageWords - 1) : flash[b][1] # flash[a][1]}

\* The k-th of them, from the end of the page.
CollectedAt(page, k) ==
    CHOOSE a \in Collected(page) : Cardinality({b \in Collected(page) : b > a}) = k - 1

\* The number of words in the first n batches.
RECURSIVE WordsIn(_, _)
WordsIn(batches, n) == IF n = 0 THEN 0 ELSE Len(batches[n]) + WordsIn(batches, n - 1)

\* The byte budget of the i-th program batch.
BatchBudget(i) == IF i = 1 THEN FIRST_BATCH_BYTES ELSE BATCH_BYTES

\* C40 - the buffer of PageSwap stays in bounds: ulDataBuffer never holds
\* more than its 32 words; it is programmed to the new page and emptied
\* whenever the byte budget of the current batch has come down to 0, and what
\* is left in it after the scan is programmed once; the entries land in the
\* new page without gaps from its first entry on, in the order in which the
\* scan collected them.
BufferInBounds ==
    LET b == BufBatches
        done == loc.entry - (loc.page + 2)
    IN
    /\ \A i \in 1..Len(b) : Len(b[i]) >= 1 /\ Len(b[i]) <= BUFFER_WORDS
    /\ \A i \in 1..(Len(b) - 1) : 4 * Len(b[i]) = BatchBudget(i)
    /\ 4 * Len(b[Len(b)]) <= BatchBudget(Len(b))
    /\ WordsIn(b, Len(b)) = Cardinality(Collected(loc.full))
    /\ done = WordsIn(b, loc.batch)
    /\ \A k \in 1..done : flash[loc.page + 1 + k] = flash[CollectedAt(loc.full, k)]
    /\ \A a \in (loc.page + 2 + done)..(loc.page + BufPageWords - 1) :
          flash[a] = ERASED_WORD
    /\ pc = "swap_mark_new" <=> loc.batch = Len(b)

\* The copy of a page with an entry of 40 ids is over: a first batch of 6
\* words, a batch that filled the buffer and a rest were programmed.
BufferInBoundsWitness ==
    /\ pc = "swap_mark_new"
    /\ loc.batch = 3
    /\ Len(BufBatches[1]) = 6
    /\ Len(BufBatches[2]) = BUFFER_WORDS
    /\ loc.entry = loc.page + 2 + ScanEntries

====
